---- MODULE Spec2Model ----
(***************************************************************************)
(* A model of the BuildStream artifact cache: the local cache of refs in   *)
(* LRU order, the cache size estimate kept by the main process, the        *)
(* cleanup job which evicts refs in a child process, and the pull and push *)
(* of artifacts against the remotes of a project.                          *)
(***************************************************************************)
EXTENDS Integers, Sequences, FiniteSets, TLC

(***************************************************************************)
(* Bounds of the model.                                                    *)
(***************************************************************************)
MaxTime == 1        \* the clock of ref mtimes runs over 0..MaxTime
MaxQuota == 4       \* the cache quota is drawn from 0..MaxQuota
MaxEstimate == 5    \* builds are not started once the estimate would exceed this

Elements == {1, 2}
Remotes == {1, 2}

\* _KeyStrength
STRONG == 1
WEAK == 2
Strengths == {STRONG, WEAK}

\* Element._get_cache_key(strength): a distinct key for each element and strength
get_cache_key(e, strength) == 2 * e + strength

\* get_artifact_fullname(element, key): "<project>/<element>/<key>"
get_artifact_fullname(e, key) == <<e, key>>

Refs == {get_artifact_fullname(e, get_cache_key(e, s)) : e \in Elements, s \in Strengths}

\* to_remove.rpartition('/')[2]: the last path component of a ref
KeyOf(ref) == ref[2]

\* the element a ref belongs to (the second path component)
ElementOf(ref) == ref[1]

\* Size in bytes of the artifact of an element
ArtifactSize(e) == e

NoRef == -1
NoJob == 0

VARIABLES
    ref_mtime,          \* refs/heads/<ref>: mtime of the ref file, NoRef when absent
    objects,            \* elements whose artifact objects are stored in the CAS
    now,                \* the filesystem clock, in units of mtime granularity
    required_elements,  \* ArtifactCache._required_elements in the main process
    cache_size,         \* the cache size estimate of the main process
    cache_quota,        \* _cache_quota (the lower threshold is cache_quota / 2)
    build_result,       \* element whose build child has committed, done() pending
    clean_pc,           \* cleanup job: "idle", "run", "done" (returned), "error" (raised)
    all_artifacts,      \* what list_artifacts() returned at the start of clean()
    artifacts,          \* the refs clean() has not examined yet
    required_artifacts, \* the keys clean() found required
    child_cache_size,   \* the cache size of the cleanup child process
    msgs,               \* 'update-cache-size' messages in flight to the main process
    removed,            \* refs removed by this clean(), with the size before each removal
    remotes,            \* _remotes[project]: the remotes of the project, in priority order
    remote_push,        \* spec.push of each remote
    remote_refs,        \* the refs each remote holds
    last_op             \* the latest operation of the main process and its outcome

cacheVars == <<ref_mtime, objects, now, required_elements, cache_size, cache_quota,
               build_result>>
cleanVars == <<clean_pc, all_artifacts, artifacts, required_artifacts,
               child_cache_size, msgs, removed>>
remoteVars == <<remotes, remote_push, remote_refs>>
artifactVars == <<cacheVars, cleanVars, remoteVars, last_op>>

\* A job of the scheduler
VARIABLES
    job_pc,               \* "new", "scheduled" (task created), "action" (the child runs
                          \* action_cb), "returned" (the child returned), "complete"
    max_retries,          \* Job._max_retries
    tries,                \* Job._tries
    terminated,           \* Job._terminated
    should_terminate,     \* Job._should_terminate
    thread_id,            \* whether Job._thread_id is set (TRUE) or None (FALSE)
    async_exc,            \* a TerminateException raised in the child, not yet delivered
    returncode,           \* the return code of the latest child_action
    result,               \* Job._result
    status,               \* the JobStatus handed to complete_cb and job_completed
    scheduler_terminated, \* Scheduler.terminated
    starts,               \* for each start(): the return code that led to it
    attempts,             \* for each child_action that returned: how it ended
    terminate_at          \* where the job was at the first terminate(), "never" before

jobVars == <<job_pc, max_retries, tries, terminated, should_terminate, thread_id,
             async_exc, returncode, result, status, scheduler_terminated, starts,
             attempts, terminate_at>>

\* The build queue of the scheduler
VARIABLES
    cached_failure,       \* the elements for which _cached_failure() holds
    tried,                \* BuildQueue._tried
    queued,               \* the elements handed to Queue.enqueue, in order
    done_queue,           \* BuildQueue._done_queue
    failed_elements,      \* BuildQueue.failed_elements
    job_complete_calls,   \* the calls of Scheduler._job_complete_callback
    met                   \* for each element: how often enqueue met it without and
                          \* with a cached failure

queueVars == <<cached_failure, tried, queued, done_queue, failed_elements,
               job_complete_calls, met>>

\* The loader of a project: loading the targets, the check for circular
\* dependencies and the sort of the dependencies
VARIABLES
    files,                \* for each element: the dependencies its .bst file declares
    targets,              \* the targets given to load()
    ld_pc,                \* "idle", "load", "check", "sort", "done", "error"
    todo,                 \* the targets load() has not loaded yet
    target_elements,      \* load(): the elements of the targets loaded so far
    loaded,               \* the keys of Loader._elements
    dependencies,         \* LoadElement.dependencies of each element
    ld_stack,             \* the calls of _load_file or _check_circular_deps in progress
    check_elements,       \* _check_circular_deps: the elements on the current path
    validated,            \* _check_circular_deps: the elements found free of cycles
    sequence,             \* _check_circular_deps: the names on the current path
    chain                 \* the chain of the CIRCULAR_DEPENDENCY error, <<>> without one

loaderVars == <<files, targets, ld_pc, todo, target_elements, loaded, dependencies,
                ld_stack, check_elements, validated, sequence, chain>>

\* The loaders of a project and of its sub-projects, looking up one junction
VARIABLES
    defines,              \* the projects which have an element file for the junction
    loaders,              \* for each project: the entry of Loader._loaders for the junction
    lookups               \* the calls of _get_loader so far: who asked, with which
                          \* entries, and what came back

junctionVars == <<defines, loaders, lookups>>

\* The CAS artifact server
VARIABLES
    enable_push,          \* whether the server was created with enable_push
    srv_objects,          \* the hashes of the objects in the store of the server
    srv_refs,             \* the refs of the store: for each key the digest it names
    upload,               \* the call of ByteStream.Write in progress
    last_rpc              \* the latest call answered, the store before it, the response

serverVars == <<enable_push, srv_objects, srv_refs, upload, last_rpc>>

\* ByteStream.Read
VARIABLES
    reader                \* the call of ByteStream.Read: its request, its position, its chunks

readVars == <<reader>>

\* ArtifactCache._calculate_cache_quota()
VARIABLES
    quota_calc            \* the call of _calculate_cache_quota: what it was given, what
                          \* it set or raised

quotaVars == <<quota_calc>>

\* BuildQueue.done() and the cleanup it starts
VARIABLES
    build_success,        \* whether the build child whose done() is pending succeeded
    cleanup_cause         \* the element whose done() started the latest cleanup

buildVars == <<build_success, cleanup_cause>>

\* CasBasedDirectory: a tree of directories backed by the CAS
VARIABLES
    tree,                 \* for each path the CasBasedDirectory object there, if any
    cas,                  \* the serialized Directory objects stored in the CAS
    dir_op,               \* the latest call on the tree, its arguments and its result
    dir_calls             \* the number of calls which have mutated the tree

dirVars == <<tree, cas, dir_op, dir_calls>>

\* Job.terminate() step by step, next to the worker thread
VARIABLES
    terminate_pc,         \* "idle", or "call": terminate() has left its lock and is
                          \* about to call terminate_thread
    kills                 \* the calls of terminate_thread: whether _thread_id was set
                          \* and where the job was

raceVars == <<terminate_pc, kills>>

\* ArtifactCache.setup_remotes() and initialize_remotes()
VARIABLES
    artifact_cache_specs, \* the remotes configured for each project, in priority order
    unreachable,          \* the urls of the remotes which cannot be contacted
    aliased,              \* whether initialize_remotes is the one which gathers the
                          \* specs in the list of the global specs itself
    global_remote_specs,  \* the specs for all projects
    project_remote_specs, \* the specs of each project (<<>>: the project has no entry)
    project_remotes,      \* _remotes: the remotes of each project
    has_fetch_remotes,
    has_push_remotes,
    remotes_setup,        \* whether setup_remotes() was called
    set_remotes           \* the global specs as _set_remotes set them

setupVars == <<artifact_cache_specs, unreachable, aliased, global_remote_specs,
               project_remote_specs, project_remotes, has_fetch_remotes,
               has_push_remotes, remotes_setup, set_remotes>>

\* The state outside the artifact cache
moreVars == <<readVars, quotaVars, buildVars, dirVars, raceVars, setupVars>>
extVars == <<jobVars, queueVars, loaderVars, junctionVars, serverVars, moreVars>>
notJobVars == <<artifactVars, queueVars, loaderVars, junctionVars, serverVars, moreVars>>
notQueueVars == <<artifactVars, jobVars, loaderVars, junctionVars, serverVars, moreVars>>
notLoaderVars == <<artifactVars, jobVars, queueVars, junctionVars, serverVars, moreVars>>
notJunctionVars == <<artifactVars, jobVars, queueVars, loaderVars, serverVars, moreVars>>
notServerVars == <<artifactVars, jobVars, queueVars, loaderVars, junctionVars, moreVars>>
coreVars == <<artifactVars, jobVars, queueVars, loaderVars, junctionVars, serverVars>>
notReadVars == <<coreVars, quotaVars, buildVars, dirVars, raceVars, setupVars>>
notQuotaVars == <<coreVars, readVars, buildVars, dirVars, raceVars, setupVars>>
notBuildVars == <<jobVars, queueVars, loaderVars, junctionVars, serverVars, readVars, quotaVars,
                  dirVars, raceVars, setupVars>>
notRaceVars == <<artifactVars, queueVars, loaderVars, junctionVars, serverVars, readVars,
                 quotaVars, buildVars, dirVars, setupVars>>
notDirVars == <<coreVars, readVars, quotaVars, buildVars, raceVars, setupVars>>
notSetupVars == <<coreVars, readVars, quotaVars, buildVars, dirVars, raceVars>>
vars == <<artifactVars, extVars>>

NoOp == [op |-> "none"]

(***************************************************************************)
(* The CAS store.                                                          *)
(***************************************************************************)
RECURSIVE SumSizes(_)
SumSizes(S) ==
    IF S = {} THEN 0
    ELSE LET e == CHOOSE x \in S : TRUE
         IN ArtifactSize(e) + SumSizes(S \ {e})

\* CASCache.calculate_cache_size(): the sum of the sizes of the stored objects
calculate_cache_size == SumSizes(objects)

PresentRefs == {r \in Refs : ref_mtime[r] # NoRef}

RefOrders(S) ==
    {f \in [1..Cardinality(S) -> S] : \A i, j \in 1..Cardinality(S) : i # j => f[i] # f[j]}

\* CASCache.list_refs(): the refs, least recently used first according to the
\* mtime of the ref files; refs with equal mtime come in any order
list_refs ==
    {f \in RefOrders(PresentRefs) :
        \A i, j \in DOMAIN f : i < j => ref_mtime[f[i]] <= ref_mtime[f[j]]}

\* CASCache.set_ref() / CASCache.update_mtime(): write or touch the ref files
TouchRefs(mt, S) == [r \in Refs |-> IF r \in S THEN now ELSE mt[r]]

\* Elements no ref reaches once ref is gone: what prune() frees
Unreachable(ref) ==
    IF \E r \in PresentRefs \ {ref} : ElementOf(r) = ElementOf(ref)
    THEN {} ELSE {ElementOf(ref)} \cap objects

\* CASCache.remove(ref): the bytes freed by removing the ref and pruning
RemoveSize(ref) == SumSizes(Unreachable(ref))

(***************************************************************************)
(* ArtifactCache: quota.                                                   *)
(***************************************************************************)
\* has_quota_exceeded() / full()
full_AtLeast(size) == size >= cache_quota
full(size) == size > cache_quota

\* get_cache_size() >= _cache_lower_threshold, where the threshold is _cache_quota / 2
AtLeastLowerThreshold(size) == 2 * size >= cache_quota

(***************************************************************************)
(* ArtifactCache: operations of the main process.                          *)
(***************************************************************************)
\* The keys mark_required_elements() touches for an element
MarkedKeys_StrongOnly(e) == {get_cache_key(e, STRONG)}
MarkedKeys(e) == {get_cache_key(e, STRONG), get_cache_key(e, WEAK)}

\* mark_required_elements(elements)
mark_required_elements(S) ==
    /\ clean_pc = "idle"
    /\ required_elements' = required_elements \cup S
    /\ ref_mtime' = TouchRefs(ref_mtime,
                              {r \in PresentRefs : /\ ElementOf(r) \in S
                                                   /\ KeyOf(r) \in MarkedKeys(ElementOf(r))})
    /\ last_op' = [op |-> "mark", touched |-> {r \in PresentRefs : ElementOf(r) \in S}]
    /\ UNCHANGED <<objects, now, cache_size, cache_quota, build_result, cleanVars, remoteVars, extVars>>

\* commit(element, content, keys): store the content, then set_ref for each key
commit(e, strengths) ==
    /\ objects' = objects \cup {e}
    /\ ref_mtime' = TouchRefs(ref_mtime,
                              {get_artifact_fullname(e, get_cache_key(e, s)) : s \in strengths})
    /\ last_op' = NoOp
    /\ UNCHANGED <<now, required_elements, cache_size, cache_quota, cleanVars, remoteVars, extVars>>

\* BuildQueue.process(element) in the child of a build job: the element is
\* assembled and its artifact committed under both keys
BuildQueueProcess(e) ==
    /\ build_result = NoJob
    /\ cache_size + ArtifactSize(e) <= MaxEstimate
    /\ commit(e, Strengths)
    /\ build_result' = e

\* add_artifact_size(artifact_size)
add_artifact_size(size) == cache_size + size

\* BuildQueue.done(job, element, result, success) with success
BuildQueueDone ==
    /\ build_result # NoJob
    /\ cache_size' = add_artifact_size(ArtifactSize(build_result))
    /\ build_result' = NoJob
    /\ last_op' = NoOp
    /\ UNCHANGED <<ref_mtime, objects, now, required_elements, cache_quota, cleanVars, remoteVars, extVars>>

\* remove(ref), called outside a cleanup
remove(ref) ==
    /\ clean_pc = "idle"
    /\ ref \in PresentRefs
    /\ objects' = objects \ Unreachable(ref)
    /\ ref_mtime' = [ref_mtime EXCEPT ![ref] = NoRef]
    /\ last_op' = NoOp
    /\ UNCHANGED <<now, required_elements, cache_size, cache_quota, build_result, cleanVars,
                   remoteVars, extVars>>

\* The filesystem clock advances by one unit of mtime granularity
Tick ==
    /\ clean_pc = "idle"
    /\ now < MaxTime
    /\ now' = now + 1
    /\ last_op' = NoOp
    /\ UNCHANGED <<ref_mtime, objects, required_elements, cache_size, cache_quota,
                   build_result, cleanVars, remoteVars, extVars>>

(***************************************************************************)
(* ArtifactCache.clean(), run by the child of a cleanup job.               *)
(***************************************************************************)
\* The keys clean() locks for the required elements
RequiredKeys_StrongOnly(S) == {get_cache_key(e, STRONG) : e \in S}
RequiredKeys_WeakOnly(S) == {get_cache_key(e, WEAK) : e \in S}
RequiredKeys(S) == UNION {{get_cache_key(e, STRONG), get_cache_key(e, WEAK)} : e \in S}

\* The condition of the loop of clean()
CleanContinues_Positive(size) == size > 0
CleanContinues(size) == AtLeastLowerThreshold(size)

\* artifacts.pop(0): the ref taken and the refs left
pop_last(list) == [item |-> list[Len(list)], rest |-> SubSeq(list, 1, Len(list) - 1)]
pop(list) == [item |-> Head(list), rest |-> Tail(list)]

\* CleanupJob.child_process(): clean() up to the first test of the loop
CleanStart ==
    /\ clean_pc = "idle"
    /\ \E l \in list_refs :
          /\ all_artifacts' = l
          /\ artifacts' = l
    /\ required_artifacts' = RequiredKeys(required_elements)
    /\ child_cache_size' = calculate_cache_size
    /\ clean_pc' = "run"
    /\ removed' = <<>>
    /\ last_op' = NoOp
    /\ UNCHANGED <<cacheVars, msgs, remoteVars, extVars>>

\* One turn of the loop of clean(), or its exit
CleanStep ==
    /\ clean_pc = "run"
    /\ IF ~CleanContinues(child_cache_size)
       THEN /\ clean_pc' = "done"
            /\ UNCHANGED <<ref_mtime, objects, artifacts, child_cache_size, msgs, removed>>
       ELSE IF artifacts = <<>>
       THEN /\ clean_pc' = IF full(child_cache_size) THEN "error" ELSE "done"
            /\ UNCHANGED <<ref_mtime, objects, artifacts, child_cache_size, msgs, removed>>
       ELSE LET to_remove == pop(artifacts).item
                size == RemoveSize(to_remove)
            IN /\ artifacts' = pop(artifacts).rest
               /\ clean_pc' = "run"
               /\ IF KeyOf(to_remove) \notin required_artifacts
                  THEN /\ objects' = objects \ Unreachable(to_remove)
                       /\ ref_mtime' = [ref_mtime EXCEPT ![to_remove] = NoRef]
                       /\ child_cache_size' = child_cache_size - size
                       /\ msgs' = Append(msgs, child_cache_size - size)
                       /\ removed' = Append(removed, [ref |-> to_remove,
                                                       before |-> child_cache_size])
                  ELSE UNCHANGED <<ref_mtime, objects, child_cache_size, msgs, removed>>
    /\ UNCHANGED <<now, required_elements, cache_size, cache_quota, build_result,
                   all_artifacts, required_artifacts, remoteVars, extVars, last_op>>

\* CleanupJob.handle_message('update-cache-size', message) in the main process
HandleMessage ==
    /\ msgs # <<>>
    /\ cache_size' = Head(msgs)
    /\ msgs' = Tail(msgs)
    /\ UNCHANGED <<ref_mtime, objects, now, required_elements, cache_quota, build_result,
                   clean_pc, all_artifacts, artifacts, required_artifacts,
                   child_cache_size, removed, remoteVars, extVars, last_op>>

\* CleanupJob.parent_complete(status, result): the cache size it leaves
parent_complete_AnyStatus(ok, returned, size) == returned
parent_complete(ok, returned, size) == IF ok THEN returned ELSE size

\* CleanupJob.parent_complete(status, result) in the main process
ParentComplete ==
    /\ clean_pc \in {"done", "error"}
    /\ msgs = <<>>
    /\ cache_size' = parent_complete(clean_pc = "done", child_cache_size, cache_size)
    /\ clean_pc' = "idle"
    /\ all_artifacts' = <<>>
    /\ artifacts' = <<>>
    /\ required_artifacts' = {}
    /\ child_cache_size' = 0
    /\ removed' = <<>>
    /\ last_op' = NoOp
    /\ UNCHANGED <<ref_mtime, objects, now, required_elements, cache_quota, build_result,
                   msgs, remoteVars, extVars>>

(***************************************************************************)
(* ArtifactCache: pull and push against the remotes of the project.        *)
(***************************************************************************)
\* CASCache.pull(ref, remote): True when the remote provides the ref, False
\* when it does not hold it, a CASError when the remote cannot be reached
cas_pull(ref, remote, down) ==
    IF remote \in down THEN "CASError"
    ELSE IF ref \in remote_refs[remote] THEN "True" ELSE "False"

\* The loop of pull() over the remotes rs: the remotes contacted and the outcome
RECURSIVE pull_loop_all(_, _, _)
pull_loop_all(rs, ref, down) ==
    IF rs = <<>> THEN [contacted |-> <<>>, result |-> "False"]
    ELSE LET remote == Head(rs)
             out == cas_pull(ref, remote, down)
             rest == pull_loop_all(Tail(rs), ref, down)
         IN IF out = "CASError"
            THEN [contacted |-> <<remote>>, result |-> "ArtifactError"]
            ELSE [contacted |-> <<remote>> \o rest.contacted,
                  result |-> IF out = "True" THEN "True" ELSE rest.result]

RECURSIVE pull_loop_recover(_, _, _)
pull_loop_recover(rs, ref, down) ==
    IF rs = <<>> THEN [contacted |-> <<>>, result |-> "False"]
    ELSE LET remote == Head(rs)
             out == cas_pull(ref, remote, down)
         IN IF out = "True" THEN [contacted |-> <<remote>>, result |-> "True"]
            ELSE LET rest == pull_loop_recover(Tail(rs), ref, down)
                 IN [contacted |-> <<remote>> \o rest.contacted, result |-> rest.result]

RECURSIVE pull_loop(_, _, _)
pull_loop(rs, ref, down) ==
    IF rs = <<>> THEN [contacted |-> <<>>, result |-> "False"]
    ELSE LET remote == Head(rs)
             out == cas_pull(ref, remote, down)
         IN IF out = "True" THEN [contacted |-> <<remote>>, result |-> "True"]
            ELSE IF out = "CASError"
            THEN [contacted |-> <<remote>>, result |-> "ArtifactError"]
            ELSE LET rest == pull_loop(Tail(rs), ref, down)
                 IN [contacted |-> <<remote>> \o rest.contacted, result |-> rest.result]

\* pull(element, key)
pull(e, key, down) ==
    LET ref == get_artifact_fullname(e, key)
        out == pull_loop(remotes, ref, down)
    IN /\ clean_pc = "idle"
       /\ IF out.result = "True"
          THEN /\ objects' = objects \cup {e}
               /\ ref_mtime' = TouchRefs(ref_mtime, {ref})
          ELSE UNCHANGED <<objects, ref_mtime>>
       /\ last_op' = [op |-> "pull", ref |-> ref, contacted |-> out.contacted,
                      result |-> out.result, down |-> down,
                      holders |-> {r \in Remotes : ref \in remote_refs[r]},
                      touched |-> IF out.result = "True" THEN {ref} ELSE {}]
       /\ UNCHANGED <<now, required_elements, cache_size, cache_quota, build_result,
                      cleanVars, remoteVars, extVars>>

\* [r for r in self._remotes[project] if r.spec.push]
IsPushRemote_All(r) == TRUE
IsPushRemote(r) == remote_push[r]
push_remotes == SelectSeq(remotes, IsPushRemote)

\* CASCache.push(refs, remote): True when the remote was updated, False when it
\* held the refs already, a CASError when the remote cannot be reached
cas_push(refs, remote, down) ==
    IF remote \in down THEN "CASError"
    ELSE IF refs \subseteq remote_refs[remote] THEN "False" ELSE "True"

\* The loop of push() over the remotes rs, entered with the value of pushed:
\* the remotes a push was attempted to, the remotes updated and the outcome
RECURSIVE push_loop(_, _, _, _)
push_loop(rs, refs, down, pushed) ==
    IF rs = <<>>
    THEN [attempted |-> <<>>, updated |-> {}, result |-> IF pushed THEN "True" ELSE "False"]
    ELSE LET remote == Head(rs)
             out == cas_push(refs, remote, down)
         IN IF out = "CASError"
            THEN [attempted |-> <<remote>>, updated |-> {}, result |-> "ArtifactError"]
            ELSE LET rest == push_loop(Tail(rs), refs, down, pushed \/ out = "True")
                 IN [attempted |-> <<remote>> \o rest.attempted,
                     updated |-> (IF out = "True" THEN {remote} ELSE {}) \cup rest.updated,
                     result |-> rest.result]

\* push(element, keys)
push(e, strengths, down) ==
    LET refs == {get_artifact_fullname(e, get_cache_key(e, s)) : s \in strengths}
        out == push_loop(push_remotes, refs, down, FALSE)
    IN /\ clean_pc = "idle"
       /\ refs \subseteq PresentRefs
       /\ remote_refs' = [r \in Remotes |-> IF r \in out.updated
                                            THEN remote_refs[r] \cup refs
                                            ELSE remote_refs[r]]
       /\ last_op' = [op |-> "push", refs |-> refs, attempted |-> out.attempted,
                      updated |-> out.updated, result |-> out.result,
                      holders |-> {r \in Remotes : refs \subseteq remote_refs[r]}]
       /\ UNCHANGED <<cacheVars, cleanVars, remotes, remote_push, extVars>>

(***************************************************************************)
(* Job: a task of the scheduler, its child action run in a thread, its     *)
(* retries and its termination.                                            *)
(***************************************************************************)
MaxRetries == 2     \* max_retries is drawn from 0..MaxRetries

\* _ReturnCode
ReturnCode == [OK |-> 0, FAIL |-> 1, PERM_FAIL |-> 2, SKIPPED |-> 3, TERMINATED |-> 4]

\* JobStatus
JobStatus == [OK |-> 0, FAIL |-> 1, SKIPPED |-> 3]

\* No child_action has returned yet, no status has been reported yet
NoCode == -1

\* What action_cb may return, and None
Results == {"r1", "r2"}
None == "None"

\* How a call of action_cb may end, unless the thread is terminated:
\* a normal return, SkipJob, a BstError (temporary or not), any other Exception
Outcomes == {"return", "SkipJob", "temporary", "permanent", "Exception"}

\* The job after Job(..., max_retries=m)
JobNew(m) ==
    /\ job_pc = "new"
    /\ max_retries = m
    /\ tries = 0
    /\ terminated = FALSE
    /\ should_terminate = FALSE
    /\ thread_id = FALSE
    /\ async_exc = FALSE
    /\ returncode = NoCode
    /\ result = None
    /\ status = NoCode
    /\ scheduler_terminated = FALSE
    /\ starts = <<>>
    /\ attempts = <<>>
    /\ terminate_at = "never"

\* Job._task is set from start() until the completion was reported
task == job_pc \in {"scheduled", "action", "returned"}

\* start(), called after a child returned with prev (NoCode for the first start);
\* the assertion fails for a job which was terminated
start(prev) ==
    IF terminated
    THEN /\ job_pc' = "assertion"
         /\ UNCHANGED <<tries, starts>>
    ELSE /\ tries' = tries + 1
         /\ job_pc' = "scheduled"
         /\ starts' = Append(starts, prev)

JobStart ==
    /\ job_pc = "new"
    /\ start(NoCode)
    /\ UNCHANGED <<max_retries, terminated, should_terminate, thread_id, async_exc,
                   returncode, result, status, scheduler_terminated, attempts,
                   terminate_at>>
    /\ UNCHANGED notJobVars

\* terminate(), called in the main thread
terminate ==
    /\ terminate_at' = IF terminate_at = "never" THEN job_pc ELSE terminate_at
    /\ IF task
       THEN IF should_terminate
            THEN UNCHANGED <<should_terminate, async_exc, terminated>>
            ELSE /\ should_terminate' = TRUE
                 /\ IF ~thread_id
                    THEN UNCHANGED <<async_exc, terminated>>
                    ELSE /\ async_exc' = TRUE
                         /\ terminated' = TRUE
       ELSE /\ terminated' = TRUE
            /\ UNCHANGED <<should_terminate, async_exc>>

Terminate ==
    /\ job_pc # "assertion"
    /\ terminate
    /\ UNCHANGED <<job_pc, max_retries, tries, thread_id, returncode, result, status,
                   scheduler_terminated, starts, attempts>>
    /\ UNCHANGED notJobVars

\* The scheduler is terminated (Scheduler.terminated as read by the job)
SchedulerTerminate ==
    /\ ~scheduler_terminated
    /\ scheduler_terminated' = TRUE
    /\ UNCHANGED <<job_pc, max_retries, tries, terminated, should_terminate, thread_id,
                   async_exc, returncode, result, status, starts, attempts,
                   terminate_at>>
    /\ UNCHANGED notJobVars

\* The child returns (code, value) from child_action; _thread_id is reset on the way
child_return(outcome, code, value) ==
    /\ returncode' = code
    /\ result' = value
    /\ thread_id' = FALSE
    /\ job_pc' = "returned"
    /\ attempts' = Append(attempts, [outcome |-> outcome, code |-> code, value |-> value])

\* child_action() up to the call of action_cb: the thread registers itself and
\* returns at once when termination was requested before
ChildBegin ==
    /\ job_pc = "scheduled"
    /\ IF should_terminate
       THEN child_return("not_run", ReturnCode.TERMINATED, None)
       ELSE /\ thread_id' = TRUE
            /\ job_pc' = "action"
            /\ UNCHANGED <<returncode, result, attempts>>
    /\ UNCHANGED <<max_retries, tries, terminated, should_terminate, async_exc, status,
                   scheduler_terminated, starts, terminate_at>>
    /\ UNCHANGED notJobVars

\* The return code of child_action for each way action_cb ends
child_code(outcome) ==
    CASE outcome = "return" -> ReturnCode.OK
      [] outcome = "SkipJob" -> ReturnCode.SKIPPED
      [] outcome = "temporary" -> ReturnCode.FAIL
      [] outcome = "permanent" -> ReturnCode.PERM_FAIL
      [] outcome = "Exception" -> ReturnCode.PERM_FAIL

\* child_action(): action_cb ends with outcome (returning value when it returns)
child_action(outcome, value) ==
    /\ job_pc = "action"
    /\ ~async_exc
    /\ child_return(outcome, child_code(outcome),
                    IF outcome = "return" THEN value ELSE None)
    /\ UNCHANGED <<max_retries, tries, terminated, should_terminate, async_exc, status,
                   scheduler_terminated, starts, terminate_at>>
    /\ UNCHANGED notJobVars

ChildAction == \E outcome \in Outcomes, value \in Results : child_action(outcome, value)

\* child_action(): TerminateException is raised in the thread within action_cb
ChildTerminated ==
    /\ job_pc = "action"
    /\ async_exc
    /\ async_exc' = FALSE
    /\ child_return("terminated", ReturnCode.TERMINATED, None)
    /\ UNCHANGED <<max_retries, tries, terminated, should_terminate, status,
                   scheduler_terminated, starts, terminate_at>>
    /\ UNCHANGED notJobVars

\* terminate() from its start to the end of its locked section: the request is
\* recorded, and the call returns at once when it was recorded before or when
\* no thread has registered itself
TerminateLocked ==
    /\ job_pc # "assertion"
    /\ terminate_pc = "idle"
    /\ terminate_at' = IF terminate_at = "never" THEN job_pc ELSE terminate_at
    /\ IF task
       THEN IF should_terminate
            THEN UNCHANGED <<should_terminate, terminated, terminate_pc>>
            ELSE /\ should_terminate' = TRUE
                 /\ terminate_pc' = IF thread_id THEN "call" ELSE "idle"
                 /\ UNCHANGED terminated
       ELSE /\ terminated' = TRUE
            /\ UNCHANGED <<should_terminate, terminate_pc>>
    /\ UNCHANGED <<job_pc, max_retries, tries, thread_id, async_exc, returncode, result,
                   status, scheduler_terminated, starts, attempts, kills>>
    /\ UNCHANGED notRaceVars

\* terminate_thread(thread_id): TerminateException is raised in the thread of
\* that id; the call needs the id of a thread and fails when it is given None
terminate_thread_Any(id_set) == TRUE
terminate_thread(id_set) == id_set

\* terminate() after its locked section: terminate_thread(self._thread_id) with
\* the thread id as it is now, and _terminated = True when the call returns
TerminateThread ==
    /\ terminate_pc = "call"
    /\ terminate_pc' = "idle"
    /\ kills' = Append(kills, [thread_id |-> thread_id, job_pc |-> job_pc])
    /\ async_exc' = (async_exc \/ thread_id)
    /\ terminated' = (terminated \/ terminate_thread(thread_id))
    /\ UNCHANGED <<job_pc, max_retries, tries, should_terminate, thread_id, returncode,
                   result, status, scheduler_terminated, starts, attempts, terminate_at>>
    /\ UNCHANGED notRaceVars

\* We don't want to retry if we got OK or a permanent fail
retry_flag_Failures(code) == code \in {ReturnCode.FAIL, ReturnCode.PERM_FAIL}
retry_flag(code) == code = ReturnCode.FAIL

\* Whether the tries of the job allow another one
tries_left_OneMore == tries <= max_retries + 1
tries_left == tries <= max_retries

\* The outward facing job completion status of a return code
job_status(code) ==
    IF code = ReturnCode.OK THEN JobStatus.OK
    ELSE IF code = ReturnCode.SKIPPED THEN JobStatus.SKIPPED
    ELSE JobStatus.FAIL

\* _parent_child_completed(returncode), in the main thread
ParentChildCompleted ==
    /\ job_pc = "returned"
    /\ IF retry_flag(returncode) /\ tries_left /\ ~scheduler_terminated
       THEN /\ start(returncode)
            /\ UNCHANGED status
       ELSE /\ status' = job_status(returncode)
            /\ job_pc' = "complete"
            /\ UNCHANGED <<tries, starts>>
    /\ UNCHANGED <<max_retries, terminated, should_terminate, thread_id, async_exc,
                   returncode, result, scheduler_terminated, attempts, terminate_at>>
    /\ UNCHANGED notJobVars

(***************************************************************************)
(* BuildQueue.enqueue: elements with a cached failure bypass the queue the *)
(* first time they are met.                                                *)
(***************************************************************************)
MaxBatch == 2       \* enqueue() is called with 1..MaxBatch elements
MaxMet == 4         \* enqueue() meets at most MaxMet elements in all

\* The build queue after BuildQueue()
QueueNew ==
    /\ tried = {}
    /\ queued = <<>>
    /\ done_queue = <<>>
    /\ failed_elements = <<>>
    /\ job_complete_calls = <<>>
    /\ met = [e \in Elements |-> [plain |-> 0, failure |-> 0]]

\* Whether enqueue() leaves the element to the queue
to_queue_Untried(element, tried_elements) == element \notin cached_failure
to_queue(element, tried_elements) ==
    element \notin cached_failure \/ element \in tried_elements

\* The loop of enqueue() over elts, from the state st of the queue
RECURSIVE enqueue_loop(_, _)
enqueue_loop(elts, st) ==
    IF elts = <<>> THEN st
    ELSE LET element == Head(elts)
         IN  IF to_queue(element, st.tried)
             THEN enqueue_loop(Tail(elts),
                    [st EXCEPT !.to_queue = Append(@, element),
                               !.met[element] =
                                   IF element \in cached_failure
                                   THEN [@ EXCEPT !.failure = @ + 1]
                                   ELSE [@ EXCEPT !.plain = @ + 1]])
             ELSE enqueue_loop(Tail(elts),
                    [st EXCEPT !.tried = @ \cup {element},
                               !.done_queue = Append(@, [element |-> element,
                                                         started |-> FALSE]),
                               !.failed_elements = Append(@, element),
                               !.calls = Append(@, [element |-> element,
                                                    success |-> FALSE]),
                               !.met[element].failure = @ + 1])

\* enqueue(elts); the elements left over are handed to Queue.enqueue
enqueue(elts) ==
    LET st == enqueue_loop(elts, [tried |-> tried, to_queue |-> <<>>,
                                  done_queue |-> done_queue,
                                  failed_elements |-> failed_elements,
                                  calls |-> job_complete_calls, met |-> met])
    IN  /\ tried' = st.tried
        /\ done_queue' = st.done_queue
        /\ failed_elements' = st.failed_elements
        /\ job_complete_calls' = st.calls
        /\ met' = st.met
        /\ queued' = queued \o st.to_queue
        /\ UNCHANGED cached_failure

\* How many elements enqueue() has met
RECURSIVE SumMet(_)
SumMet(S) ==
    IF S = {} THEN 0
    ELSE LET e == CHOOSE x \in S : TRUE
         IN  met[e].plain + met[e].failure + SumMet(S \ {e})

Batches == UNION {[1..n -> Elements] : n \in 1..MaxBatch}

Enqueue ==
    \E elts \in Batches :
        /\ SumMet(Elements) + Len(elts) <= MaxMet
        /\ enqueue(elts)
        /\ UNCHANGED notQueueVars

\* The build of an element fails and the failure is cached
CacheFailure ==
    \E e \in Elements :
        /\ e \notin cached_failure
        /\ cached_failure' = cached_failure \cup {e}
        /\ UNCHANGED <<tried, queued, done_queue, failed_elements, job_complete_calls,
                       met>>
        /\ UNCHANGED notQueueVars

(***************************************************************************)
(* Loader: load() reads the files of the targets and of their dependencies *)
(* recursively, checks the loaded elements for circular dependencies and   *)
(* sorts the dependencies of each element.                                 *)
(***************************************************************************)
\* The elements of the project (their .bst files); 0 is the dummy target of load()
LoadElements == 1..6
dummy_target == 0

\* Symbol.BUILD, Symbol.RUNTIME, Symbol.ALL
Symbol == [BUILD |-> "build", RUNTIME |-> "runtime", ALL |-> "all"]
DepTypes == {Symbol.BUILD, Symbol.RUNTIME, Symbol.ALL}

\* LoadElement.Dependency(element, dep_type)
Dependency(element, dep_type) == [element |-> element, dep_type |-> dep_type]

\* The loader before load()
LoaderNew ==
    /\ ld_pc = "idle"
    /\ todo = <<>>
    /\ target_elements = <<>>
    /\ loaded = {}
    /\ dependencies = [e \in LoadElements \cup {dummy_target} |-> <<>>]
    /\ ld_stack = <<>>
    /\ check_elements = {}
    /\ validated = {}
    /\ sequence = <<>>
    /\ chain = <<>>

\* A call in progress: the element and the index of its next dependency
Frame(element, idx) == [element |-> element, idx |-> idx]
Top(stack) == stack[Len(stack)]
Pop(stack) == SubSeq(stack, 1, Len(stack) - 1)
ReplaceTop(stack, frame) == Append(Pop(stack), frame)

\* load(targets): the first pass begins
LoadStart ==
    /\ ld_pc = "idle"
    /\ ld_pc' = "load"
    /\ todo' = targets
    /\ UNCHANGED <<files, targets, target_elements, loaded, dependencies, ld_stack,
                   check_elements, validated, sequence, chain>>
    /\ UNCHANGED notLoaderVars

\* if filename in self._elements
already_loaded_Never(filename) == FALSE
already_loaded(filename) == filename \in loaded

\* _load_file(filename) is entered: a file which is loaded already is ignored,
\* a new element is registered in _elements before its dependencies are loaded
load_file_enter(filename) ==
    IF already_loaded(filename)
    THEN UNCHANGED <<ld_stack, loaded>>
    ELSE /\ ld_stack' = Append(ld_stack, Frame(filename, 1))
         /\ loaded' = loaded \cup {filename}

\* One step of the first pass of load(): the next target is loaded, or the
\* _load_file call on top of the stack handles its next dependency or returns
LoadStep ==
    /\ ld_pc = "load"
    /\ IF ld_stack = <<>>
       THEN IF todo = <<>>
            THEN \* all targets are loaded: the dummy target depends on all of them
                 /\ dependencies' = [dependencies EXCEPT ![dummy_target] =
                        [i \in 1..Len(target_elements) |->
                            Dependency(target_elements[i], Symbol.RUNTIME)]]
                 /\ ld_pc' = "check"
                 /\ ld_stack' = <<Frame(dummy_target, 0)>>
                 /\ UNCHANGED <<todo, target_elements, loaded>>
            ELSE IF already_loaded(Head(todo))
                 THEN /\ target_elements' = Append(target_elements, Head(todo))
                      /\ todo' = Tail(todo)
                      /\ UNCHANGED <<ld_pc, ld_stack, loaded, dependencies>>
                 ELSE /\ load_file_enter(Head(todo))
                      /\ UNCHANGED <<ld_pc, todo, target_elements, dependencies>>
       ELSE LET element == Top(ld_stack).element
                idx == Top(ld_stack).idx
            IN  IF idx > Len(files[element])
                THEN \* return element
                     /\ ld_stack' = Pop(ld_stack)
                     /\ UNCHANGED <<ld_pc, todo, target_elements, loaded, dependencies>>
                ELSE LET dep == files[element][idx]
                     IN  IF already_loaded(dep.name)
                         THEN \* element.dependencies.append(...)
                              /\ dependencies' = [dependencies EXCEPT ![element] =
                                     Append(@, Dependency(dep.name, dep.dep_type))]
                              /\ ld_stack' = ReplaceTop(ld_stack, Frame(element, idx + 1))
                              /\ UNCHANGED <<ld_pc, todo, target_elements, loaded>>
                         ELSE /\ load_file_enter(dep.name)
                              /\ UNCHANGED <<ld_pc, todo, target_elements, dependencies>>
    /\ UNCHANGED <<files, targets, check_elements, validated, sequence, chain>>
    /\ UNCHANGED notLoaderVars

\* The index of the first occurrence of x in seq
Index(seq, x) == CHOOSE i \in 1..Len(seq) : seq[i] = x /\ \A j \in 1..(i - 1) : seq[j] # x

\* The loop of dependencies from the element back to itself
dependency_chain_Untrimmed(seq, element) == Append(seq, element)
dependency_chain(seq, element) ==
    Append(SubSeq(seq, Index(seq, element), Len(seq)), element)

\* One step of _check_circular_deps: the call on top of the stack is entered
\* (idx 0), checks its next dependency, or returns
CheckStep ==
    /\ ld_pc = "check"
    /\ IF ld_stack = <<>>
       THEN /\ ld_pc' = "sort"
            /\ UNCHANGED <<ld_stack, check_elements, validated, sequence, chain>>
       ELSE LET element == Top(ld_stack).element
                idx == Top(ld_stack).idx
            IN  IF idx = 0
                THEN IF element \in validated
                     THEN \* skip already validated branches
                          /\ ld_stack' = Pop(ld_stack)
                          /\ UNCHANGED <<ld_pc, check_elements, validated, sequence, chain>>
                     ELSE IF element \in check_elements
                     THEN /\ chain' = dependency_chain(sequence, element)
                          /\ ld_pc' = "error"
                          /\ UNCHANGED <<ld_stack, check_elements, validated, sequence>>
                     ELSE /\ check_elements' = check_elements \cup {element}
                          /\ sequence' = Append(sequence, element)
                          /\ ld_stack' = ReplaceTop(ld_stack, Frame(element, 1))
                          /\ UNCHANGED <<ld_pc, validated, chain>>
                ELSE IF idx <= Len(dependencies[element])
                THEN /\ ld_stack' = Append(ReplaceTop(ld_stack, Frame(element, idx + 1)),
                                           Frame(dependencies[element][idx].element, 0))
                     /\ UNCHANGED <<ld_pc, check_elements, validated, sequence, chain>>
                ELSE /\ check_elements' = check_elements \ {element}
                     /\ sequence' = Pop(sequence)
                     /\ validated' = validated \cup {element}
                     /\ ld_stack' = Pop(ld_stack)
                     /\ UNCHANGED <<ld_pc, chain>>
    /\ UNCHANGED <<files, targets, todo, target_elements, loaded, dependencies>>
    /\ UNCHANGED notLoaderVars

\* LoadElement.name and LoadElement.junction of each element (0: a local element):
\* elements 3, 4 and 5 have the same name, 4 and 5 come from two junctions
element_name == <<1, 2, 3, 3, 3, 4>>
element_junction == <<0, 0, 0, 1, 2, 0>>

\* The direct dependencies of an element
DirectDeps(e) == {dependencies[e][i].element : i \in 1..Len(dependencies[e])}

\* The elements an element depends on, directly or indirectly
RECURSIVE Closure(_)
Closure(S) ==
    LET next == S \cup UNION {DirectDeps(e) : e \in S}
    IN  IF next = S THEN S ELSE Closure(next)
AllDeps(e) == Closure(DirectDeps(e))

\* LoadElement.depends(other)
depends(element, other) == other \in AllDeps(element)

\* dependency_cmp(dep_a, dep_b) of _sort_dependencies
dependency_cmp(dep_a, dep_b) ==
    LET element_a == dep_a.element
        element_b == dep_b.element
    IN  IF depends(element_a, element_b) THEN 1
        ELSE IF depends(element_b, element_a) THEN -1
        ELSE IF dep_a.dep_type # dep_b.dep_type /\ dep_a.dep_type = Symbol.RUNTIME THEN 1
        ELSE IF dep_a.dep_type # dep_b.dep_type /\ dep_b.dep_type = Symbol.RUNTIME THEN -1
        ELSE IF element_name[element_a] > element_name[element_b] THEN 1
        ELSE IF element_name[element_a] < element_name[element_b] THEN -1
        ELSE IF element_junction[element_a] # 0 /\ element_junction[element_b] # 0
             THEN IF element_junction[element_a] > element_junction[element_b] THEN 1
                  ELSE IF element_junction[element_a] < element_junction[element_b] THEN -1
                  ELSE 0
        ELSE IF element_junction[element_a] # 0 THEN -1
        ELSE IF element_junction[element_b] # 0 THEN 1
        ELSE 0

\* cmp_to_key: the keys of two dependencies compare as dependency_cmp does
ISLT(x, y) == dependency_cmp(x, y) < 0

\* list.sort() of a list shorter than 64: the leading run (ascending, or strictly
\* descending and then reversed) is extended by binary insertion
run_continues(list, descending, i) ==
    IF descending THEN ISLT(list[i], list[i - 1]) ELSE ~ISLT(list[i], list[i - 1])

count_run(list) ==
    LET descending == ISLT(list[2], list[1])
        n == CHOOSE k \in 2..Len(list) :
                 /\ \A i \in 3..k : run_continues(list, descending, i)
                 /\ k < Len(list) => ~run_continues(list, descending, k + 1)
    IN  [n |-> n, descending |-> descending]

reverse_slice(list, n) ==
    [i \in 1..Len(list) |-> IF i <= n THEN list[n + 1 - i] ELSE list[i]]

\* Where pivot goes in the sorted list: the bisection of binarysort, l and r
\* counting from 0
RECURSIVE bisect(_, _, _, _)
bisect(list, pivot, l, r) ==
    LET p == l + ((r - l) \div 2)
        l2 == IF ISLT(pivot, list[p + 1]) THEN l ELSE p + 1
        r2 == IF ISLT(pivot, list[p + 1]) THEN p ELSE r
    IN  IF l2 < r2 THEN bisect(list, pivot, l2, r2) ELSE l2

RECURSIVE binarysort(_, _)
binarysort(list, first) ==
    IF first > Len(list) THEN list
    ELSE LET pivot == list[first]
             l == bisect(list, pivot, 0, first - 1)
         IN  binarysort(SubSeq(list, 1, l) \o <<pivot>> \o SubSeq(list, l + 1, first - 1)
                            \o SubSeq(list, first + 1, Len(list)),
                        first + 1)

list_sort(list) ==
    IF Len(list) < 2 THEN list
    ELSE LET run == count_run(list)
         IN  binarysort(IF run.descending THEN reverse_slice(list, run.n) ELSE list,
                        run.n + 1)

\* _sort_dependencies(element): the dependencies of the element and of every
\* element it depends on are sorted
sort_dependencies(deps, element) ==
    [e \in DOMAIN deps |->
        IF e \in AllDeps(element) \cup {element} THEN list_sort(deps[e]) ELSE deps[e]]

\* The last loop of load(): _sort_dependencies for each target in turn
RECURSIVE sort_targets(_, _)
sort_targets(deps, elements) ==
    IF elements = <<>> THEN deps
    ELSE sort_targets(sort_dependencies(deps, Head(elements)), Tail(elements))

SortStep ==
    /\ ld_pc = "sort"
    /\ dependencies' = sort_targets(dependencies, target_elements)
    /\ ld_pc' = "done"
    /\ UNCHANGED <<files, targets, todo, target_elements, loaded, ld_stack,
                   check_elements, validated, sequence, chain>>
    /\ UNCHANGED notLoaderVars

(***************************************************************************)
(* Loader._get_loader: the loaders of a project and of its sub-projects    *)
(* look up the loader of one junction.                                     *)
(***************************************************************************)
MaxLookups == 3     \* _get_loader is called at most MaxLookups times

\* Project 1 is the toplevel project, 2 and 3 are its sub-projects and 4 is a
\* sub-project of 2; Loader._parent of the loader of each project (0: none)
Projects == 1..4
parent_loader == <<0, 1, 1, 2>>

\* The ancestors of a project
RECURSIVE Ancestors(_)
Ancestors(p) ==
    IF parent_loader[p] = 0 THEN {}
    ELSE {parent_loader[p]} \cup Ancestors(parent_loader[p])

\* The entries of _loaders and the results of _get_loader: no entry yet, None,
\* or the loader which the project owner made from its definition of the junction
Unset == [kind |-> "unset"]
NoLoader == [kind |-> "None"]
LoaderOf(owner) == [kind |-> "loader", owner |-> owner]
LoadError(reason) == [kind |-> "LoadError", reason |-> reason]

\* Whether the entry tells of a junction which a sub-project has to itself
conflicting_Never(entry) == FALSE
conflicting(entry) == entry.kind = "None"

\* _get_loader(filename) of the loader of project p, called at level: the
\* entries afterwards and what is returned or raised
RECURSIVE get_loader(_, _, _)
get_loader(entries, p, level) ==
    IF entries[p] # Unset
    THEN \* return previously determined result
         IF conflicting(entries[p])
         THEN [loaders |-> entries, result |-> LoadError("CONFLICTING_JUNCTION")]
         ELSE [loaders |-> entries, result |-> entries[p]]
    ELSE LET up == IF parent_loader[p] # 0
                   THEN get_loader(entries, parent_loader[p], level + 1)
                   ELSE [loaders |-> entries, result |-> NoLoader]
         IN  IF up.result.kind = "LoadError" THEN up
             ELSE IF up.result.kind = "loader"
             THEN \* junctions in the parent take precedence
                  [loaders |-> [up.loaders EXCEPT ![p] = up.result], result |-> up.result]
             ELSE IF p \notin defines
             THEN IF level = 0
                  THEN [loaders |-> up.loaders, result |-> LoadError("MISSING_FILE")]
                  ELSE [loaders |-> [up.loaders EXCEPT ![p] = NoLoader],
                        result |-> NoLoader]
             ELSE [loaders |-> [up.loaders EXCEPT ![p] = LoaderOf(p)],
                   result |-> LoaderOf(p)]

\* Whether the load has failed with a LoadError
LoadFailed == \E i \in 1..Len(lookups) : lookups[i].result.kind = "LoadError"

\* The loader of project p looks up the junction while loading an element
GetLoader ==
    \E p \in Projects :
        /\ Len(lookups) < MaxLookups
        /\ ~LoadFailed
        /\ LET got == get_loader(loaders, p, 0)
           IN  /\ loaders' = got.loaders
               /\ lookups' = Append(lookups, [project |-> p, before |-> loaders,
                                              result |-> got.result])
        /\ UNCHANGED defines
        /\ UNCHANGED notJunctionVars

\* The loaders before any lookup
JunctionNew ==
    /\ loaders = [p \in Projects |-> Unset]
    /\ lookups = <<>>

(***************************************************************************)
(* The CAS artifact server: ByteStream.Write, UpdateArtifact and Status.   *)
(***************************************************************************)
MaxSize == 1        \* blobs of up to MaxSize bytes are uploaded

\* The blobs, the data of one request and the hash of a blob (no two blobs of
\* the model have the same hash)
Byte == {0}
Blobs == UNION {[1..n -> Byte] : n \in 0..MaxSize}
RECURSIVE Hash(_)
Hash(blob) ==
    IF blob = <<>> THEN 1
    ELSE 2 * Hash(SubSeq(blob, 1, Len(blob) - 1)) + blob[Len(blob)]

\* Digest(hash, size_bytes); a resource name "<hash>/<size>" is held as the
\* pair of its parts and the empty name as <<>>
Digest(hash, size_bytes) == [hash |-> hash, size_bytes |-> size_bytes]
Digests == [hash : {Hash(b) : b \in Blobs}, size_bytes : 0..MaxSize]
ResourceNames == {<<d.hash, d.size_bytes>> : d \in Digests} \cup {<<>>}
digest_from_resource_name(resource_name) == Digest(resource_name[1], resource_name[2])

\* The keys of the refs and the artifact digests a client may send
ServerKeys == {1}
NoDigest == Digest(0, 0)
Artifacts == {Digest(Hash(<<>>), 0), Digest(Hash(<<0>>), 1)}

\* WriteRequest
WriteRequests ==
    [resource_name : ResourceNames, write_offset : 0..MaxSize, data : Blobs,
     finish_write : BOOLEAN]

\* No call of Write is in progress
NoUpload == [open |-> FALSE]

\* No call was answered yet
NoRpc == [rpc |-> "none"]

\* The server after create_server(): an empty store
ServerNew ==
    /\ srv_objects = {}
    /\ srv_refs = [k \in ServerKeys |-> NoDigest]
    /\ upload = NoUpload
    /\ last_rpc = NoRpc

\* Whether uploads and updates are allowed
push_enabled_Always == TRUE
push_enabled == enable_push

\* CASCache.add_object: the blob is stored under its hash
add_object(store, blob) == store \cup {Hash(blob)}

\* The answer to a call of Write which read the requests up to request: the
\* response with its code, or the error of a failed assertion (UNKNOWN)
WriteAnswer(code, committed_size, resource_name, out, request) ==
    [rpc |-> "Write", code |-> code, committed_size |-> committed_size,
     objects_before |-> upload.objects_before, resource_name |-> resource_name,
     out |-> out, requests |-> upload.requests + 1,
     last_finish_write |-> request.finish_write,
     stream |-> Append(upload.stream, request)]

\* Write is called: it is denied at once, or it starts to read the requests
WriteBegin ==
    /\ ~upload.open
    /\ IF ~push_enabled
       THEN /\ last_rpc' = [rpc |-> "Write", code |-> "PERMISSION_DENIED",
                            committed_size |-> 0, objects_before |-> srv_objects,
                            resource_name |-> <<>>, out |-> <<>>, requests |-> 0,
                            last_finish_write |-> FALSE, stream |-> <<>>]
            /\ UNCHANGED upload
       ELSE /\ upload' = [open |-> TRUE, offset |-> 0, finished |-> FALSE,
                          resource_name |-> <<>>, out |-> <<>>, requests |-> 0,
                          last_finish_write |-> FALSE, stream |-> <<>>,
                          objects_before |-> srv_objects]
            /\ last_rpc' = NoRpc
    /\ UNCHANGED <<enable_push, srv_objects, srv_refs>>
    /\ UNCHANGED notServerVars

\* assert request.write_offset == offset
write_offset_expected_Any(request, offset) == TRUE
write_offset_expected(request, offset) == request.write_offset = offset

\* The loop of Write takes the next request of the stream; upload.stream keeps
\* the requests which were read
write_request(request) ==
    LET first == upload.requests = 0
        resource_name == IF first THEN request.resource_name ELSE upload.resource_name
        out == upload.out \o request.data
        offset == upload.offset + Len(request.data)
        read == [upload EXCEPT !.requests = @ + 1, !.resource_name = resource_name,
                               !.out = out, !.offset = offset,
                               !.last_finish_write = request.finish_write,
                               !.stream = Append(@, request)]
    IN  IF \/ upload.finished
           \/ ~write_offset_expected(request, upload.offset)
           \/ first /\ Len(request.resource_name) # 2
           \/ /\ ~first
              /\ request.resource_name # <<>>
              /\ request.resource_name # upload.resource_name
        THEN /\ last_rpc' = WriteAnswer("UNKNOWN", 0, upload.resource_name, upload.out,
                                        request)
             /\ upload' = NoUpload
             /\ UNCHANGED srv_objects
        ELSE IF ~request.finish_write
        THEN /\ upload' = read
             /\ UNCHANGED <<srv_objects, last_rpc>>
        ELSE IF digest_from_resource_name(resource_name).size_bytes # offset
        THEN /\ last_rpc' = WriteAnswer("UNKNOWN", 0, resource_name, out, request)
             /\ upload' = NoUpload
             /\ UNCHANGED srv_objects
        ELSE \* the object is added, its hash is compared afterwards
             /\ srv_objects' = add_object(srv_objects, out)
             /\ IF Hash(out) # digest_from_resource_name(resource_name).hash
                THEN /\ last_rpc' = WriteAnswer("UNKNOWN", 0, resource_name, out, request)
                     /\ upload' = NoUpload
                ELSE /\ upload' = [read EXCEPT !.finished = TRUE]
                     /\ UNCHANGED last_rpc

WriteRequest ==
    \E request \in WriteRequests :
        /\ upload.open
        /\ Len(upload.out) + Len(request.data) <= MaxSize
        /\ upload.requests <= MaxSize
        /\ write_request(request)
        /\ UNCHANGED <<enable_push, srv_refs>>
        /\ UNCHANGED notServerVars

\* The stream of requests ends
WriteEnd ==
    /\ upload.open
    /\ last_rpc' = [rpc |-> "Write",
                    code |-> IF upload.finished THEN "OK" ELSE "UNKNOWN",
                    committed_size |-> IF upload.finished THEN upload.offset ELSE 0,
                    objects_before |-> upload.objects_before,
                    resource_name |-> upload.resource_name, out |-> upload.out,
                    requests |-> upload.requests,
                    last_finish_write |-> upload.last_finish_write,
                    stream |-> upload.stream]
    /\ upload' = NoUpload
    /\ UNCHANGED <<enable_push, srv_objects, srv_refs>>
    /\ UNCHANGED notServerVars

\* UpdateArtifact(keys, artifact)
UpdateArtifact ==
    \E keys \in SUBSET ServerKeys, artifact \in Artifacts :
        /\ ~upload.open
        /\ srv_refs' = IF push_enabled
                       THEN [k \in ServerKeys |-> IF k \in keys THEN artifact
                                                  ELSE srv_refs[k]]
                       ELSE srv_refs
        /\ last_rpc' = [rpc |-> "UpdateArtifact",
                        code |-> IF push_enabled THEN "OK" ELSE "PERMISSION_DENIED",
                        keys |-> keys, artifact |-> artifact]
        /\ UNCHANGED <<enable_push, srv_objects, upload>>
        /\ UNCHANGED notServerVars

\* CASCache.resolve_ref(key): the digest of the ref, or CASError for a ref
\* which does not exist
resolve_ref(key) ==
    IF srv_refs[key] = NoDigest THEN [raised |-> "CASError"]
    ELSE [raised |-> "none", tree |-> srv_refs[key]]

\* The exceptions which GetArtifact answers with NOT_FOUND: CASError is not an
\* ArtifactError
caught(raised) == raised = "ArtifactError"

\* GetArtifact(key)
GetArtifact ==
    \E key \in ServerKeys :
        /\ ~upload.open
        /\ LET got == resolve_ref(key)
           IN  last_rpc' =
                   [rpc |-> "GetArtifact", key |-> key,
                    code |-> IF got.raised = "none" THEN "OK"
                             ELSE IF caught(got.raised) THEN "NOT_FOUND"
                             ELSE "UNKNOWN",
                    artifact |-> IF got.raised = "none" THEN got.tree ELSE NoDigest]
        /\ UNCHANGED <<enable_push, srv_objects, srv_refs, upload>>
        /\ UNCHANGED notServerVars

\* Status()
Status ==
    /\ ~upload.open
    /\ last_rpc' = [rpc |-> "Status", code |-> "OK", allow_updates |-> enable_push]
    /\ UNCHANGED <<enable_push, srv_objects, srv_refs, upload>>
    /\ UNCHANGED notServerVars

(***************************************************************************)
(* The CAS artifact server: ByteStream.Read streams an object in chunks.   *)
(***************************************************************************)
MaxChunks == 2      \* objects of up to about MaxChunks full chunks are read

\* The most bytes of one ReadResponse
max_chunk == 64 * 1024

\* The sizes of objects, the declared sizes and the offsets: around the
\* multiples of a full chunk
ReadSizes == {k * max_chunk + d : k \in 0..MaxChunks, d \in {-1, 0, 1}} \cap Nat

\* No call of Read was made
NoRead == [pc |-> "idle"]

\* remaining = client_digest.size_bytes - request.read_offset
remaining_FromStart(size_bytes, read_offset) == size_bytes
remaining_bytes(size_bytes, read_offset) == size_bytes - read_offset

\* chunk_size = min(remaining, 64 * 1024)
chunk_size(remaining) == IF remaining < max_chunk THEN remaining ELSE max_chunk

\* f.read(n) at position pos of a file of st_size bytes: the bytes from pos up
\* to pos + n or to the end of the file, as the interval they cover
f_read(st_size, pos, n) ==
    [first |-> pos, last |-> IF pos + n < st_size THEN pos + n ELSE st_size]

\* Read(request) up to its loop: the assertions, the seek and remaining; the
\* object of the digest is a file of st_size bytes
ReadBegin ==
    \E st_size \in ReadSizes, size_bytes \in ReadSizes, read_offset \in ReadSizes :
        /\ reader.pc = "idle"
        /\ reader' =
               IF read_offset <= size_bytes /\ st_size = size_bytes
               THEN [pc |-> "loop", st_size |-> st_size, size_bytes |-> size_bytes,
                     read_offset |-> read_offset, pos |-> read_offset,
                     remaining |-> remaining_bytes(size_bytes, read_offset),
                     chunks |-> <<>>]
               ELSE [pc |-> "assertion", st_size |-> st_size, size_bytes |-> size_bytes,
                     read_offset |-> read_offset, pos |-> 0, remaining |-> 0,
                     chunks |-> <<>>]
        /\ UNCHANGED notReadVars

\* One turn of the loop of Read, or its end
ReadChunk ==
    /\ reader.pc = "loop"
    /\ IF reader.remaining > 0
       THEN LET n == chunk_size(reader.remaining)
                data == f_read(reader.st_size, reader.pos, n)
            IN  reader' = [reader EXCEPT !.remaining = @ - n,
                                         !.pos = data.last,
                                         !.chunks = Append(@, data)]
       ELSE reader' = [reader EXCEPT !.pc = "done"]
    /\ UNCHANGED notReadVars

(***************************************************************************)
(* ArtifactCache._calculate_cache_quota(): the quota and the lower         *)
(* threshold from the configured quota and the space of the volume.        *)
(* Sizes are counted in units of 10^9 bytes.                               *)
(***************************************************************************)
MaxSpace == 3       \* the cache size and the available space are drawn from 0..MaxSpace

\* headroom = 2e9, outside the test suite
headroom_bytes == 2

\* utils._parse_size() of a quota which is not set: None, for infinity
QuotaNone == -1

\* No call was made
NoQuota == [pc |-> "new"]

\* The LoadError raised for a quota above the space there is
quota_error_maximum == [raised |-> "LoadError", reason |-> "INVALID_DATA"]

\* The quota to take for the configured one: None stands for infinity
quota_or_max(config_cache_quota, size, available_space) ==
    IF config_cache_quota = QuotaNone THEN size + available_space ELSE config_cache_quota

\* _calculate_cache_quota() with the parsed quota, the headroom, the cache size
\* and the available space of the volume: what is raised, or what is set
calculate_cache_quota(config_cache_quota, headroom, size, available_space) ==
    LET quota == quota_or_max(config_cache_quota, size, available_space)
    IN  IF quota < headroom
        THEN [raised |-> "LoadError", reason |-> "INVALID_DATA"]
        ELSE IF quota > size + available_space
        THEN quota_error_maximum
        ELSE [raised |-> "none", _cache_quota |-> quota - headroom,
              \* _cache_quota / 2, as the fraction of its numerator and denominator
              _cache_lower_threshold |-> <<quota - headroom, 2>>]

CalculateCacheQuota ==
    \E config_cache_quota \in {QuotaNone} \cup 0..(2 * MaxSpace + 1),
       headroom \in {0, headroom_bytes}, size \in 0..MaxSpace,
       available_space \in 0..MaxSpace :
        /\ quota_calc.pc = "new"
        /\ quota_calc' =
               [pc |-> "done", config_cache_quota |-> config_cache_quota,
                headroom |-> headroom, cache_size |-> size,
                available_space |-> available_space,
                result |-> calculate_cache_quota(config_cache_quota, headroom, size,
                                                 available_space)]
        /\ UNCHANGED notQuotaVars

(***************************************************************************)
(* BuildQueue.done(): the element is told that it was assembled, the size  *)
(* of its artifact is added to the estimate and the cache size is checked. *)
(***************************************************************************)
\* The child of a build job ends: with success the artifact was committed under
\* both keys, with a failure nothing was
BuildChild ==
    \E e \in Elements, success \in BOOLEAN :
        /\ build_result = NoJob
        /\ cache_size + ArtifactSize(e) <= MaxEstimate
        /\ build_result' = e
        /\ build_success' = success
        /\ IF success
           THEN /\ objects' = objects \cup {e}
                /\ ref_mtime' = TouchRefs(ref_mtime,
                                          {get_artifact_fullname(e, get_cache_key(e, st)) :
                                               st \in Strengths})
           ELSE UNCHANGED <<objects, ref_mtime>>
        /\ last_op' = NoOp
        /\ UNCHANGED <<now, required_elements, cache_size, cache_quota, cleanVars,
                       remoteVars, cleanup_cause>>
        /\ UNCHANGED notBuildVars

\* Element._assemble_done(): the element registers its keys as required
assemble_done(e) == required_elements \cup {e}

\* The required elements at the time done() has the cache size checked
required_at_check_Before(e) == required_elements
required_at_check(e) == assemble_done(e)

\* Scheduler.check_cache_size(): a cleanup job is started when the quota is
\* exceeded and none is running
check_cache_size(size) == full(size) /\ clean_pc = "idle"

\* BuildQueue.done(job, element, result, success)
BuildDone ==
    /\ build_result # NoJob
    /\ build_result' = NoJob
    /\ last_op' = NoOp
    /\ IF ~build_success
       THEN UNCHANGED <<ref_mtime, required_elements, cache_size, cleanVars, cleanup_cause>>
       ELSE LET e == build_result
                mtimes == TouchRefs(ref_mtime,
                                    {r \in PresentRefs : /\ ElementOf(r) = e
                                                         /\ KeyOf(r) \in MarkedKeys(e)})
                size == add_artifact_size(ArtifactSize(e))
            IN  /\ required_elements' = assemble_done(e)
                /\ ref_mtime' = mtimes
                /\ cache_size' = size
                /\ IF check_cache_size(size)
                   THEN /\ \E l \in RefOrders(PresentRefs) :
                               /\ \A i, j \in DOMAIN l :
                                      i < j => mtimes[l[i]] <= mtimes[l[j]]
                               /\ all_artifacts' = l
                               /\ artifacts' = l
                        /\ required_artifacts' = RequiredKeys(required_at_check(e))
                        /\ child_cache_size' = calculate_cache_size
                        /\ clean_pc' = "run"
                        /\ removed' = <<>>
                        /\ cleanup_cause' = e
                        /\ UNCHANGED msgs
                   ELSE UNCHANGED <<cleanVars, cleanup_cause>>
    /\ UNCHANGED <<objects, now, cache_quota, remoteVars, build_success>>
    /\ UNCHANGED notBuildVars

(***************************************************************************)
(* CasBasedDirectory: a directory is a remote_execution_pb2.Directory (the  *)
(* lists of its files, directories and symlinks) with an index of its      *)
(* names; the directories below it are objects of their own.               *)
(***************************************************************************)
\* The number of calls which mutate a tree
MaxCalls == 2

\* The names of entries, in their sort order
DirNames == <<"a", "b">>
EntryNames == {DirNames[i] : i \in DOMAIN DirNames}

\* The position of a name in the sort order of strings
NameOrder(name) == CHOOSE i \in DOMAIN DirNames : DirNames[i] = name

\* The paths of the directory objects: the root, its directories, and theirs
Paths == {<<>>} \cup {<<n>> : n \in EntryNames} \cup {<<n, m>> : n \in EntryNames, m \in EntryNames}

\* No CasBasedDirectory object at a path
NoDir == [exists |-> FALSE]

\* remote_execution_pb2.Directory(): the serialization of an empty directory
EmptyDirectory == [files |-> <<>>, directories |-> <<>>, symlinks |-> <<>>]

\* pb2_directory.SerializeToString() of a directory object
SerializeToString(d) ==
    [files |-> d.files, directories |-> d.directories, symlinks |-> d.symlinks]

\* The digest of a buffer: no two serializations have the same digest
DigestOf(buffer) == [hash |-> buffer]

\* CasBasedDirectory(context, parent=..., filename=...): a new, empty object
\* which has no ref
NoDigestYet == [unset |-> TRUE]
NewDirectory ==
    [exists |-> TRUE, files |-> <<>>, directories |-> <<>>, symlinks |-> <<>>,
     ref |-> NoDigestYet]

\* The names in a list of nodes
NodeNames(nodes) == {nodes[i].name : i \in DOMAIN nodes}

\* name in self.index
InIndex(d, name) ==
    name \in NodeNames(d.files) \cup NodeNames(d.directories) \cup NodeNames(d.symlinks)

\* _find_pb2_entry(name), for a name of the list
FindNode(nodes, name) == nodes[CHOOSE i \in DOMAIN nodes : nodes[i].name = name]

\* self.parent of the directory at a path; the root has none
ParentPath(path) == SubSeq(path, 1, Len(path) - 1)

\* The targets of symlinks, split at the path separator: "/x" gives "", "x"
Components == EntryNames \cup {"", ".", ".."}
Targets ==
    {<<"a">>, <<"b">>, <<"..">>, <<"..", "b">>, <<".", "a">>, <<"a", "b">>, <<"b", "a">>,
     <<"", "a">>, <<"", "b", "a">>, <<"", "..">>}

\* symlink.target.startswith('/')
absolute_target(target) == Len(target) >= 2 /\ target[1] = ""

\* What _resolve returns or raises
ResolvedNone == [kind |-> "None"]
ResolvedDirectory(path) == [kind |-> "CasBasedDirectory", path |-> path]
ResolvedFile(node) == [kind |-> "FileNode", node |-> node]
ResolveRaised(error) == [kind |-> "raised", error |-> error]

\* The directory '..' leads to
up_dir(path) == IF path = <<>> THEN path ELSE ParentPath(path)

\* The directory the walk starts from
start_directory_Self(path, absolute) == path
start_directory(path, absolute) == IF absolute THEN <<>> ELSE path

\* _resolve(name, absolute_symlinks_resolve) of the directory at path; pending
\* holds the symlinks which are being resolved, and a symlink met again while it
\* is being resolved makes the recursion endless
RECURSIVE resolve(_, _, _, _, _)
RECURSIVE resolve_walk(_, _, _, _, _)
resolve(t, path, name, absolute_symlinks_resolve, pending) ==
    LET d == t[path]
    IN  IF ~InIndex(d, name) THEN ResolvedNone
        ELSE IF name \in NodeNames(d.directories)
        THEN ResolvedDirectory(Append(path, name))
        ELSE IF name \in NodeNames(d.files)
        THEN ResolvedFile(FindNode(d.files, name))
        ELSE IF <<path, name>> \in pending THEN ResolveRaised("RecursionError")
        ELSE LET target == FindNode(d.symlinks, name).target
                 absolute == absolute_target(target)
             IN  IF absolute /\ ~absolute_symlinks_resolve THEN ResolvedNone
                 ELSE resolve_walk(t, start_directory(path, absolute),
                                   IF absolute THEN Tail(target) ELSE target,
                                   absolute_symlinks_resolve,
                                   pending \cup {<<path, name>>})

resolve_walk(t, directory, components, absolute_symlinks_resolve, pending) ==
    IF components = <<>> THEN ResolvedDirectory(directory)
    ELSE LET c == Head(components)
             rest == Tail(components)
         IN  IF c = "."
             THEN resolve_walk(t, directory, rest, absolute_symlinks_resolve, pending)
             ELSE IF c = ".."
             THEN resolve_walk(t, up_dir(directory), rest, absolute_symlinks_resolve,
                               pending)
             ELSE IF InIndex(t[directory], c)
             THEN LET f == resolve(t, directory, c, absolute_symlinks_resolve, pending)
                  IN  IF f.kind = "CasBasedDirectory"
                      THEN resolve_walk(t, f.path, rest, absolute_symlinks_resolve,
                                        pending)
                      ELSE IF f.kind = "raised" THEN f
                      ELSE IF rest # <<>>
                      THEN ResolveRaised("VirtualDirectoryError")
                      ELSE f
             ELSE ResolvedNone

\* The directory objects of the tree
Directories == {path \in Paths : tree[path].exists}

\* _resolve(name, absolute_symlinks_resolve) is called on a directory
Resolve ==
    \E path \in Directories, name \in EntryNames, absolute_symlinks_resolve \in BOOLEAN :
        /\ dir_op' = [op |-> "_resolve", path |-> path, name |-> name,
                      absolute_symlinks_resolve |-> absolute_symlinks_resolve,
                      tree_before |-> tree,
                      result |-> resolve(tree, path, name, absolute_symlinks_resolve, {})]
        /\ UNCHANGED <<tree, cas, dir_calls>>
        /\ UNCHANGED notDirVars

\* The paths at or below a path
IsBelow(q, path) == Len(q) >= Len(path) /\ SubSeq(q, 1, Len(path)) = path

\* The tree with another object for the directory at a path
WithDirectory(t, path, d) == [t EXCEPT ![path] = d]

\* A list of nodes without the nodes of a name
WithoutName(nodes, name) == SelectSeq(nodes, LAMBDA node : node.name # name)

\* delete_entry(name): the nodes of the name leave the three lists and the
\* index, and with a DirectoryNode the objects below it are lost
delete_entry(t, path, name) ==
    [q \in Paths |->
        IF q = path
        THEN [t[path] EXCEPT !.files = WithoutName(@, name),
                             !.symlinks = WithoutName(@, name),
                             !.directories = WithoutName(@, name)]
        ELSE IF IsBelow(q, Append(path, name)) THEN NoDir
        ELSE t[q]]

\* What a call gives back: the tree, the CAS, and the error it raised if any
Done(t, c) == [tree |-> t, cas |-> c, raised |-> "none"]
Raised(t, c, error) == [tree |-> t, cas |-> c, raised |-> error]

\* A list of nodes in which the node of a name has another digest
WithDigest(nodes, name, digest) ==
    [i \in DOMAIN nodes |->
        IF nodes[i].name = name THEN [nodes[i] EXCEPT !.digest = digest] ELSE nodes[i]]

\* _add_directory(name): the node of an existing directory gets the digest of
\* the empty directory, a new name gets a new node at the end of the list
\* and a new object; the empty Directory is stored
add_directory(t, c, path, name) ==
    LET d == t[path]
        empty == DigestOf(EmptyDirectory)
    IN  IF InIndex(d, name)
        THEN IF name \notin NodeNames(d.directories)
             THEN Raised(t, c, "VirtualDirectoryError")
             ELSE Done(WithDirectory(t, path,
                                     [d EXCEPT !.directories = WithDigest(@, name, empty)]),
                       c \cup {EmptyDirectory})
        ELSE Done([WithDirectory(t, path,
                                 [d EXCEPT !.directories =
                                               Append(@, [name |-> name, digest |-> empty])])
                       EXCEPT ![Append(path, name)] = NewDirectory],
                  c \cup {EmptyDirectory})

\* descend([name], create=True): an existing directory is returned as it is,
\* another existing entry is an error, a name which is not there is added
descend_create(t, c, path, name) ==
    IF InIndex(t[path], name)
    THEN IF name \in NodeNames(t[path].directories)
         THEN Done(t, c)
         ELSE Raised(t, c, "VirtualDirectoryError")
    ELSE add_directory(t, c, path, name)

\* is_empty(): len(self.index) == 0
is_empty(d) == \A name \in EntryNames : ~InIndex(d, name)

\* FileListResult(): the lists an import reports
FileListResult == [files_written |-> <<>>, overwritten |-> <<>>, ignored |-> <<>>]

\* _check_replacement(name, path_prefix, fileListResult) with an empty
\* prefix: whether the import of the name goes ahead, the tree and the result
check_replacement(t, path, name, fileListResult) ==
    LET d == t[path]
    IN  IF ~InIndex(d, name)
        THEN [go |-> TRUE, tree |-> t, result |-> fileListResult]
        ELSE IF name \in NodeNames(d.files) \cup NodeNames(d.symlinks)
        THEN [go |-> TRUE, tree |-> delete_entry(t, path, name),
              result |-> [fileListResult EXCEPT !.overwritten = Append(@, name)]]
        ELSE IF is_empty(t[Append(path, name)])
        THEN [go |-> TRUE, tree |-> delete_entry(t, path, name),
              result |-> [fileListResult EXCEPT !.overwritten = Append(@, name)]]
        ELSE [go |-> FALSE, tree |-> t,
              result |-> [fileListResult EXCEPT !.ignored = Append(@, name)]]

\* _add_new_file(basename, filename): a new node at the end of the files
add_new_file(t, path, filename, content) ==
    WithDirectory(t, path,
                  [t[path] EXCEPT !.files = Append(@, [name |-> filename,
                                                       digest |-> DigestOf(content),
                                                       is_executable |-> FALSE])])

\* _add_new_link(basename, filename): the node of the name gets the target,
\* a new name gets a new node at the end of the symlinks
add_new_link(t, path, filename, target) ==
    LET d == t[path]
    IN  IF filename \in NodeNames(d.symlinks)
        THEN WithDirectory(t, path,
                 [d EXCEPT !.symlinks =
                               [i \in DOMAIN @ |->
                                   IF @[i].name = filename
                                   THEN [@[i] EXCEPT !.target = target]
                                   ELSE @[i]]])
        ELSE WithDirectory(t, path,
                 [d EXCEPT !.symlinks = Append(@, [name |-> filename, target |-> target])])

\* _add_new_link_direct(name, target)
add_new_link_direct(t, path, name, target) == add_new_link(t, path, name, target)

\* What is imported: for each name of the source directory a file with its
\* content or a symlink with its target (directories and paths of several
\* components are not among the sources drawn here)
SourceEntries == {[kind |-> "file", content |-> "x"], [kind |-> "symlink", target |-> <<"..">>]}

\* sorted(files), for a list of different names
sorted(file_list) == SelectSeq(DirNames, LAMBDA n : \E i \in DOMAIN file_list : file_list[i] = n)

\* _import_files_from_directory(source_directory, files): the entries are
\* imported in sorted order, and what is added is reported as written
RECURSIVE import_entries_from_directory(_, _, _, _, _)
import_entries_from_directory(t, path, source, entries, fileListResult) ==
    IF entries = <<>> THEN [tree |-> t, result |-> fileListResult]
    ELSE LET entry == Head(entries)
             checked == check_replacement(t, path, entry, fileListResult)
             written == [checked.result EXCEPT !.files_written = Append(@, entry)]
         IN  IF ~checked.go
             THEN import_entries_from_directory(checked.tree, path, source, Tail(entries),
                                                checked.result)
             ELSE IF source[entry].kind = "symlink"
             THEN import_entries_from_directory(
                      add_new_link(checked.tree, path, entry, source[entry].target),
                      path, source, Tail(entries), written)
             ELSE import_entries_from_directory(
                      add_new_file(checked.tree, path, entry, source[entry].content),
                      path, source, Tail(entries), written)

import_files_from_directory(t, path, source, file_list) ==
    import_entries_from_directory(t, path, source, sorted(file_list), FileListResult)

\* _partial_import_cas_into_cas(source_directory, files): the files are
\* imported in the order of the list; a FileNode is added with the digest of
\* the source's node, a symlink with _add_new_link_direct
RECURSIVE partial_import_cas_into_cas_from(_, _, _, _, _)
partial_import_cas_into_cas_from(t, path, source, file_list, fileListResult) ==
    IF file_list = <<>> THEN [tree |-> t, result |-> fileListResult]
    ELSE LET f == Head(file_list)
             importable == check_replacement(t, path, f, fileListResult)
         IN  IF ~importable.go
             THEN partial_import_cas_into_cas_from(importable.tree, path, source,
                                                   Tail(file_list), importable.result)
             ELSE IF source[f].kind = "file"
             THEN partial_import_cas_into_cas_from(
                      add_new_file(importable.tree, path, f, source[f].content),
                      path, source, Tail(file_list), importable.result)
             ELSE partial_import_cas_into_cas_from(
                      add_new_link_direct(importable.tree, path, f, source[f].target),
                      path, source, Tail(file_list), importable.result)

partial_import_cas_into_cas(t, path, source, file_list) ==
    partial_import_cas_into_cas_from(t, path, source, file_list, FileListResult)

\* _verify_unique(): no name occurs twice in the lists of the directory or of
\* a directory below it
RECURSIVE verify_unique(_, _)
verify_unique(t, path) ==
    LET d == t[path]
    IN  /\ Len(d.files) + Len(d.directories) + Len(d.symlinks)
               = Cardinality(NodeNames(d.files) \cup NodeNames(d.directories)
                                 \cup NodeNames(d.symlinks))
        /\ \A i \in DOMAIN d.directories : verify_unique(t, Append(path, d.directories[i].name))

\* _recalculate_recursing_down(parent): the directories below are recalculated
\* first, each writing its digest into its DirectoryNode; then the
\* serialization is stored and its digest becomes the ref
RECURSIVE recalculate_recursing_down(_, _, _)
RECURSIVE recalculate_entries_down(_, _, _, _)
recalculate_entries_down(t, c, path, i) ==
    IF i > Len(t[path].directories) THEN Done(t, c)
    ELSE LET entry == t[path].directories[i]
             below == recalculate_recursing_down(t, c, Append(path, entry.name))
             digest == below.tree[Append(path, entry.name)].ref
         IN  recalculate_entries_down(
                 WithDirectory(below.tree, path,
                               [below.tree[path] EXCEPT !.directories[i].digest = digest]),
                 below.cas, path, i + 1)

recalculate_recursing_down(t, c, path) ==
    LET entries == recalculate_entries_down(t, c, path, 1)
        buffer == SerializeToString(entries.tree[path])
    IN  Done(WithDirectory(entries.tree, path,
                           [entries.tree[path] EXCEPT !.ref = DigestOf(buffer)]),
             entries.cas \cup {buffer})

\* _recalculate_recursing_up(caller): the serialization is stored and its
\* digest becomes the ref; after that the serialization of the caller is
\* stored and its digest is written into the DirectoryNode of the caller; then
\* the parent does the same
RECURSIVE recalculate_recursing_up(_, _, _, _)
recalculate_recursing_up(t, c, path, caller) ==
    LET ref == DigestOf(SerializeToString(t[path]))
        caller_buffer == SerializeToString(t[caller])
        updated == WithDirectory(t, path,
                       [t[path] EXCEPT !.ref = ref,
                                       !.directories =
                                           WithDigest(@, caller[Len(caller)],
                                                      DigestOf(caller_buffer))])
        stored == c \cup {ref.hash, caller_buffer}
    IN  IF path = <<>> THEN Done(updated, stored)
        ELSE recalculate_recursing_up(updated, stored, ParentPath(path), path)

\* self._recalculate_recursing_down(); if self.parent:
\* self.parent._recalculate_recursing_up(self)
recalculate(t, c, path) ==
    LET down == recalculate_recursing_down(t, c, path)
    IN  IF path = <<>> THEN down
        ELSE recalculate_recursing_up(down.tree, down.cas, ParentPath(path), path)

\* CasBasedDirectory(context, ref=ref): the object read from the CAS, and the
\* objects of its directories read from the digests of their nodes
RECURSIVE ObjectOfRef(_, _)
ObjectOfRef(ref, q) ==
    IF q = <<>>
    THEN [exists |-> TRUE, files |-> ref.hash.files, directories |-> ref.hash.directories,
          symlinks |-> ref.hash.symlinks, ref |-> ref]
    ELSE LET parent == ObjectOfRef(ref, ParentPath(q))
         IN  IF parent.exists /\ q[Len(q)] \in NodeNames(parent.directories)
             THEN ObjectOfRef(FindNode(parent.directories, q[Len(q)]).digest, <<>>)
             ELSE NoDir
TreeOfRef(ref) == [q \in Paths |-> ObjectOfRef(ref, q)]

\* What import_files gives back
Imported(done, fileListResult, error) ==
    [tree |-> done.tree, cas |-> done.cas, raised |-> error, result |-> fileListResult]

\* import_files(external_pathspec, files=files) on the directory at a path,
\* from a directory of the host or from a CasBasedDirectory of the same content
import_files(t, c, path, source, file_list, from_cas) ==
    LET synced == recalculate(t, c, path)
    IN  IF ~verify_unique(synced.tree, path)
        THEN Imported(synced, FileListResult, "VirtualDirectoryError")
        ELSE IF from_cas
        THEN LET duplicate_cas == TreeOfRef(synced.tree[path].ref)
                 imported == partial_import_cas_into_cas(synced.tree, path, source, file_list)
                 round_trip == import_files_from_directory(duplicate_cas, <<>>, source, file_list)
                 duplicate == recalculate_recursing_down(round_trip.tree, synced.cas, <<>>)
                 stored == recalculate(imported.tree, duplicate.cas, path)
             IN  IF ~verify_unique(imported.tree, path)
                 THEN Imported(Done(imported.tree, synced.cas), imported.result,
                               "VirtualDirectoryError")
                 ELSE IF duplicate.tree[<<>>].ref.hash # stored.tree[path].ref.hash
                 THEN Imported(stored, imported.result, "Mismatch")
                 ELSE Imported(stored, imported.result, "none")
        ELSE LET imported == import_files_from_directory(synced.tree, path, source, file_list)
             IN  Imported(recalculate(imported.tree, synced.cas, path), imported.result,
                          "none")

\* The lists of files of an import: one or more different names in any order
FileLists ==
    {<<n>> : n \in EntryNames}
        \cup {file_list \in {<<n, m>> : n \in EntryNames, m \in EntryNames} :
                  file_list[1] # file_list[2]}

\* The source directories which hold the names of a list and nothing else
SourcesOf(file_list) ==
    {source \in [EntryNames -> SourceEntries \cup {[kind |-> "absent"]}] :
        \A n \in EntryNames :
            source[n].kind = "absent" <=> ~\E i \in DOMAIN file_list : file_list[i] = n}

\* import_files is called on a directory of the tree
ImportFiles ==
    \E path \in Directories, file_list \in FileLists, from_cas \in BOOLEAN :
        \E source \in SourcesOf(file_list) :
            LET imported == import_files(tree, cas, path, source, file_list, from_cas)
            IN  /\ dir_calls < MaxCalls
                /\ tree' = imported.tree
                /\ cas' = imported.cas
                /\ dir_op' = [op |-> "import_files", path |-> path, files |-> file_list,
                              source |-> source, from_cas |-> from_cas,
                              tree_before |-> tree, result |-> imported.result,
                              raised |-> imported.raised]
                /\ dir_calls' = dir_calls + 1
                /\ UNCHANGED notDirVars

\* descend([name], create=True) is called on a directory of the tree
Descend ==
    \E path \in Directories, name \in EntryNames :
        LET descended == descend_create(tree, cas, path, name)
        IN  /\ dir_calls < MaxCalls
            /\ Append(path, name) \in Paths
            /\ tree' = descended.tree
            /\ cas' = descended.cas
            /\ dir_op' = [op |-> "descend", path |-> path, name |-> name,
                          tree_before |-> tree, raised |-> descended.raised]
            /\ dir_calls' = dir_calls + 1
            /\ UNCHANGED notDirVars

\* delete_entry(name) is called on a directory of the tree
DeleteEntry ==
    \E path \in Directories, name \in EntryNames :
        /\ dir_calls < MaxCalls
        /\ tree' = delete_entry(tree, path, name)
        /\ dir_op' = [op |-> "delete_entry", path |-> path, name |-> name,
                      tree_before |-> tree, raised |-> "none"]
        /\ dir_calls' = dir_calls + 1
        /\ UNCHANGED cas
        /\ UNCHANGED notDirVars

(***************************************************************************)
(* The specification.                                                      *)
(***************************************************************************)
InitCache ==
    /\ ref_mtime = [r \in Refs |-> NoRef]
    /\ objects = {}
    /\ now = 0
    /\ required_elements = {}
    /\ cache_size = 0
    /\ build_result = NoJob
    /\ clean_pc = "idle"
    /\ all_artifacts = <<>>
    /\ artifacts = <<>>
    /\ required_artifacts = {}
    /\ child_cache_size = 0
    /\ msgs = <<>>
    /\ removed = <<>>
    /\ last_op = NoOp

\* The state outside the artifact cache, where nothing has started
JobIdle == JobNew(0)

QueueIdle ==
    /\ cached_failure = {}
    /\ QueueNew

LoaderIdle ==
    /\ files = [e \in LoadElements |-> <<>>]
    /\ targets = <<>>
    /\ LoaderNew

JunctionIdle ==
    /\ defines = {}
    /\ JunctionNew

ServerIdle ==
    /\ enable_push = FALSE
    /\ ServerNew

ReadIdle == reader = NoRead

\* The parts of the model which the specification at hand leaves alone
QuotaIdle == quota_calc = NoQuota

BuildIdle ==
    /\ build_success = TRUE
    /\ cleanup_cause = NoJob

\* A tree of an empty root directory
NoDirOp == [op |-> "none"]
DirIdle ==
    /\ tree = [path \in Paths |-> IF path = <<>> THEN NewDirectory ELSE NoDir]
    /\ cas = {}
    /\ dir_op = NoDirOp
    /\ dir_calls = 0

RaceIdle ==
    /\ terminate_pc = "idle"
    /\ kills = <<>>

(***************************************************************************)
(* ArtifactCache.setup_remotes: the specs of the remotes are set for the    *)
(* session and for each project, each remote is contacted, and each project *)
(* gets the list of its remotes.                                            *)
(***************************************************************************)
\* context.get_projects(), in their order
SessionProjects == 1..2

\* ArtifactCacheSpec(url, push)
Urls == 1..2
ArtifactCacheSpec(url, may_push) == [url |-> url, push |-> may_push]
ArtifactCacheSpecs == [url : Urls, push : BOOLEAN]

\* utils._deduplicate: the first occurrence of each item, in order
RECURSIVE deduplicate(_)
deduplicate(list) ==
    IF list = <<>> THEN <<>>
    ELSE LET front == deduplicate(SubSeq(list, 1, Len(list) - 1))
             item == list[Len(list)]
         IN  IF \E i \in 1..Len(front) : front[i] = item THEN front
             ELSE Append(front, item)

\* The deduplicated lists of up to two specs
SpecLists ==
    UNION {{list \in [1..n -> ArtifactCacheSpecs] : deduplicate(list) = list} : n \in 0..2}

\* remote_specs += self.project_remote_specs[project], for each project
RECURSIVE gather(_, _, _)
gather(remote_specs, specs_of, n) ==
    IF n = 0 THEN remote_specs
    ELSE gather(remote_specs, specs_of, n - 1) \o specs_of[n]

\* The first line of initialize_remotes: remote_specs is the list of the global
\* specs itself, or a copy of it; what the list of the global specs holds once
\* the specs of the projects were added to remote_specs
global_specs_after(is_aliased, global_specs, gathered) ==
    IF is_aliased THEN gathered ELSE global_specs

\* The dictionary remotes: for each url the remote made last from a reachable
\* spec of that url, if any
remote_of(remote_specs, url) ==
    LET made == SelectSeq(remote_specs, LAMBDA spec : spec.url = url /\ url \notin unreachable)
    IN  IF made = <<>> THEN <<>> ELSE <<made[Len(made)]>>

\* The second loop of initialize_remotes for one project
remotes_of_project(all_specs, global_specs, own_specs) ==
    LET remote_specs == IF own_specs # <<>> THEN deduplicate(global_specs \o own_specs)
                        ELSE global_specs
        known == SelectSeq(remote_specs, LAMBDA spec : remote_of(all_specs, spec.url) # <<>>)
    IN  [i \in 1..Len(known) |-> remote_of(all_specs, known[i].url)[1]]

\* initialize_remotes(on_failure) as _initialize_remotes calls it: a remote
\* which cannot be contacted is reported and left out
initialize_remotes(global_specs, specs_of) ==
    LET gathered == gather(global_specs, specs_of, Len(specs_of))
        remote_specs == deduplicate(gathered)
        global_after == global_specs_after(aliased, global_specs, gathered)
        contacted == SelectSeq(remote_specs, LAMBDA spec : spec.url \notin unreachable)
    IN  /\ global_remote_specs' = global_after
        /\ has_fetch_remotes' = (has_fetch_remotes \/ contacted # <<>>)
        /\ has_push_remotes' =
               (has_push_remotes \/ \E i \in 1..Len(contacted) : contacted[i].push)
        /\ project_remotes' =
               [p \in SessionProjects |->
                   remotes_of_project(remote_specs, global_after, specs_of[p])]

\* setup_remotes(use_config, remote_url); remote_url 0 stands for None
SetupRemotes ==
    \E use_config \in BOOLEAN, remote_url \in Urls \cup {0} :
        /\ ~remotes_setup
        /\ remotes_setup' = TRUE
        /\ LET global_specs == IF remote_url # 0
                               THEN <<ArtifactCacheSpec(remote_url, TRUE)>>
                               ELSE global_remote_specs
               specs_of == IF use_config THEN artifact_cache_specs
                           ELSE project_remote_specs
               has_remote_caches ==
                   remote_url # 0 \/ (use_config /\ \E p \in SessionProjects :
                                                        artifact_cache_specs[p] # <<>>)
           IN  /\ set_remotes' = global_specs
               /\ project_remote_specs' = specs_of
               /\ IF has_remote_caches
                  THEN initialize_remotes(global_specs, specs_of)
                  ELSE /\ global_remote_specs' = global_specs
                       /\ UNCHANGED <<project_remotes, has_fetch_remotes,
                                      has_push_remotes>>
        /\ UNCHANGED <<artifact_cache_specs, unreachable, aliased>>
        /\ UNCHANGED notSetupVars

\* A new ArtifactCache
SetupNew ==
    /\ global_remote_specs = <<>>
    /\ project_remote_specs = [p \in SessionProjects |-> <<>>]
    /\ project_remotes = [p \in SessionProjects |-> <<>>]
    /\ has_fetch_remotes = FALSE
    /\ has_push_remotes = FALSE
    /\ remotes_setup = FALSE
    /\ set_remotes = <<>>

\* A new ArtifactCache in a session without configured remotes
SetupIdle ==
    /\ artifact_cache_specs = [p \in SessionProjects |-> <<>>]
    /\ unreachable = {}
    /\ aliased = FALSE
    /\ SetupNew

MoreIdle ==
    /\ ReadIdle
    /\ QuotaIdle
    /\ BuildIdle
    /\ DirIdle
    /\ RaceIdle
    /\ SetupIdle

InitExt ==
    /\ JobIdle
    /\ QueueIdle
    /\ LoaderIdle
    /\ JunctionIdle
    /\ ServerIdle
    /\ MoreIdle

RefsOfElement(e) == {r \in Refs : ElementOf(r) = e}

\* Sequences of distinct remotes
RemoteLists ==
    UNION {{f \in [1..n -> Remotes] : \A i, j \in 1..n : i # j => f[i] # f[j]} :
           n \in 0..Cardinality(Remotes)}

\* No remote holds anything and none accepts pushes
Init ==
    /\ InitCache
    /\ InitExt
    /\ cache_quota \in 0..MaxQuota
    /\ remotes = <<>>
    /\ remote_push = [r \in Remotes |-> FALSE]
    /\ remote_refs = [r \in Remotes |-> {}]

\* Any list of remotes, each with or without push, each empty at first
InitRemote ==
    /\ InitCache
    /\ InitExt
    /\ cache_quota = MaxQuota
    /\ remotes \in RemoteLists
    /\ remote_push \in [Remotes -> BOOLEAN]
    /\ \A r \in Remotes : remote_push[r] => \E i \in DOMAIN remotes : remotes[i] = r
    /\ remote_refs = [r \in Remotes |-> {}]

\* The first remote is empty, the second one is a mirror holding every artifact
InitLRU ==
    /\ InitCache
    /\ InitExt
    /\ cache_quota = MaxQuota
    /\ remotes = <<1, 2>>
    /\ remote_push = [r \in Remotes |-> FALSE]
    /\ remote_refs = [r \in Remotes |-> IF r = 2 THEN Refs ELSE {}]

MarkRequired == \E S \in SUBSET Elements : S # {} /\ mark_required_elements(S)

Commit ==
    \E e \in Elements : \E strengths \in SUBSET Strengths :
        /\ strengths # {}
        /\ clean_pc = "idle"
        /\ commit(e, strengths)
        /\ UNCHANGED build_result

BuildProcess == \E e \in Elements : BuildQueueProcess(e)

Remove == \E ref \in Refs : remove(ref)

\* The remotes of the project
ProjectRemotes == {remotes[i] : i \in DOMAIN remotes}

Pull ==
    \E e \in Elements : \E st \in Strengths : \E down \in SUBSET ProjectRemotes :
        pull(e, get_cache_key(e, st), down)

Push ==
    \E e \in Elements : \E strengths \in SUBSET Strengths :
        \E down \in SUBSET ProjectRemotes :
            strengths # {} /\ push(e, strengths, down)

\* The cache of one process: its operations one after the other, cleanups included
Next ==
    \/ Tick
    \/ MarkRequired
    \/ Commit
    \/ Remove
    \/ CleanStart
    \/ CleanStep
    \/ HandleMessage
    \/ ParentComplete

Spec == Init /\ [][Next]_vars

\* The child of a cleanup job keeps running until clean() returns or raises
FairSpec == Spec /\ WF_vars(CleanStep)

\* The scheduler: build jobs and the cleanup job run side by side
NextJobs ==
    \/ BuildProcess
    \/ BuildQueueDone
    \/ CleanStart
    \/ CleanStep
    \/ HandleMessage
    \/ ParentComplete

SpecJobs == Init /\ [][NextJobs]_vars

\* A client of remotes: artifacts are committed, pushed, removed and pulled
NextRemote ==
    \/ Commit
    \/ Remove
    \/ Pull
    \/ Push

SpecRemote == InitRemote /\ [][NextRemote]_vars

\* The LRU clock: artifacts are committed, marked required, removed and pulled
\* back from a mirror while time passes
NextLRU ==
    \/ Tick
    \/ MarkRequired
    \/ Commit
    \/ Remove
    \/ Pull

SpecLRU == InitLRU /\ [][NextLRU]_vars

\* An artifact cache which is left alone
InitIdle ==
    /\ InitCache
    /\ cache_quota = MaxQuota
    /\ remotes = <<>>
    /\ remote_push = [r \in Remotes |-> FALSE]
    /\ remote_refs = [r \in Remotes |-> {}]

\* A job with any number of retries
InitJob ==
    /\ InitIdle
    /\ MoreIdle
    /\ \E m \in 0..MaxRetries : JobNew(m)
    /\ QueueIdle
    /\ LoaderIdle
    /\ JunctionIdle
    /\ ServerIdle

\* One job: the main thread starts it, may terminate it and completes it, while
\* its child runs the action
NextOneJob ==
    \/ JobStart
    \/ Terminate
    \/ SchedulerTerminate
    \/ ChildBegin
    \/ ChildAction
    \/ ChildTerminated
    \/ ParentChildCompleted

SpecOneJob == InitJob /\ [][NextOneJob]_vars

\* The main thread does nothing else while it is in terminate()
StartJob == terminate_pc = "idle" /\ JobStart
CompleteChild == terminate_pc = "idle" /\ ParentChildCompleted
TerminateScheduler == terminate_pc = "idle" /\ SchedulerTerminate

\* One job whose terminate() runs step by step next to the worker thread
NextTerminate ==
    \/ StartJob
    \/ TerminateLocked
    \/ TerminateThread
    \/ ChildBegin
    \/ ChildAction
    \/ ChildTerminated
    \/ CompleteChild
    \/ TerminateScheduler

SpecTerminate == InitJob /\ [][NextTerminate]_vars

\* The worker thread runs on, terminate() goes on to its end, and the event loop
\* of the main thread handles the return of the child
FairSpecTerminate ==
    SpecTerminate /\ WF_vars(ChildBegin) /\ WF_vars(ChildAction) /\ WF_vars(ChildTerminated)
                  /\ WF_vars(TerminateThread) /\ WF_vars(CompleteChild)

\* The child thread runs on and the event loop of the main thread handles its return
FairSpecOneJob ==
    SpecOneJob /\ WF_vars(ChildBegin) /\ WF_vars(ChildAction) /\ WF_vars(ChildTerminated)
            /\ WF_vars(ParentChildCompleted)

TypeOK ==
    /\ ref_mtime \in [Refs -> {NoRef} \cup (0..MaxTime)]
    /\ objects \subseteq Elements
    /\ clean_pc \in {"idle", "run", "done", "error"}

\* A build queue, some elements having a cached failure from an earlier session
InitBuildQueue ==
    /\ InitIdle
    /\ MoreIdle
    /\ JobIdle
    /\ cached_failure \in SUBSET Elements
    /\ QueueNew
    /\ LoaderIdle
    /\ JunctionIdle
    /\ ServerIdle

\* Elements are enqueued for building, and builds of other sessions cache failures
NextBuildQueue ==
    \/ Enqueue
    \/ CacheFailure

SpecBuildQueue == InitBuildQueue /\ [][NextBuildQueue]_vars

\* The elements named by a list of declared dependencies
Names(list) == {list[i].name : i \in 1..Len(list)}

\* The elements which the files f lead to from the elements of S, S included
RECURSIVE FileClosure(_, _)
FileClosure(f, S) ==
    LET next == S \cup UNION {Names(f[e]) : e \in S}
    IN  IF next = S THEN S ELSE FileClosure(f, next)

\* Whether the files f declare a circular dependency among the elements of S
\* and the elements they lead to
Circular(f, S) ==
    \E e \in FileClosure(f, S) : e \in FileClosure(f, Names(f[e]))

\* The lists of n different elements of S, each with one of the types
DeclaredLists(S, types, lengths) ==
    UNION {{list \in [1..n -> [name : S, dep_type : types]] :
               \A i, j \in 1..n : i # j => list[i].name # list[j].name} :
           n \in lengths}

\* A diamond, 1 -> 2 -> 4 and 1 -> 3 -> 4, whose bottom declares what back
DiamondFiles(back) ==
    [e \in LoadElements |->
        IF e = 1 THEN <<[name |-> 2, dep_type |-> Symbol.ALL],
                        [name |-> 3, dep_type |-> Symbol.ALL]>>
        ELSE IF e \in {2, 3} THEN <<[name |-> 4, dep_type |-> Symbol.ALL]>>
        ELSE IF e = 4 THEN back
        ELSE <<>>]

\* A project of three elements which may depend on each other and on themselves
\* in any way, and one or two targets; or a diamond of four elements whose
\* bottom may depend on any element of it, and its top as the target
InitLoader ==
    /\ InitIdle
    /\ MoreIdle
    /\ JobIdle
    /\ QueueIdle
    /\ LoaderNew
    /\ JunctionIdle
    /\ ServerIdle
    /\ \/ /\ \E g \in [1..3 -> DeclaredLists(1..3, {Symbol.ALL}, 0..2)] :
                files = [e \in LoadElements |-> IF e \in 1..3 THEN g[e] ELSE <<>>]
          /\ \E list \in DeclaredLists(1..3, {Symbol.ALL}, 1..2) :
                targets = [i \in 1..Len(list) |-> list[i].name]
       \/ /\ \E back \in DeclaredLists(1..4, {Symbol.ALL}, 0..1) :
                files = DiamondFiles(back)
          /\ targets = <<1>>

NextLoader ==
    \/ LoadStart
    \/ LoadStep
    \/ CheckStep
    \/ SortStep

SpecLoader == InitLoader /\ [][NextLoader]_vars

\* load() runs on until it returns or raises
FairSpecLoader ==
    SpecLoader /\ WF_vars(LoadStart) /\ WF_vars(LoadStep) /\ WF_vars(CheckStep)
               /\ WF_vars(SortStep)

\* A target (element 6) with up to three dependencies of any type among the
\* elements 1..5, listed in any order, which depend on each other in any
\* acyclic way
InitSort ==
    /\ InitIdle
    /\ MoreIdle
    /\ JobIdle
    /\ QueueIdle
    /\ LoaderNew
    /\ JunctionIdle
    /\ ServerIdle
    /\ targets = <<6>>
    /\ \E top \in DeclaredLists(1..5, DepTypes, 0..3) :
          \E g \in [Names(top) -> DeclaredLists(Names(top), {Symbol.ALL}, 0..2)] :
              LET f == [e \in LoadElements |->
                           IF e = 6 THEN top
                           ELSE IF e \in Names(top) THEN g[e] ELSE <<>>]
              IN  /\ ~Circular(f, {6})
                  /\ files = f

SpecSort == InitSort /\ [][NextLoader]_vars

\* The projects define the junction or not, in any way
InitJunction ==
    /\ InitIdle
    /\ MoreIdle
    /\ JobIdle
    /\ QueueIdle
    /\ LoaderIdle
    /\ ServerIdle
    /\ defines \in SUBSET Projects
    /\ JunctionNew

NextJunction == GetLoader

SpecJunction == InitJunction /\ [][NextJunction]_vars

\* A server with or without push
InitServer ==
    /\ InitIdle
    /\ MoreIdle
    /\ JobIdle
    /\ QueueIdle
    /\ LoaderIdle
    /\ JunctionIdle
    /\ enable_push \in BOOLEAN
    /\ ServerNew

\* The clients of the server upload blobs, update refs and ask for the status
NextServer ==
    \/ WriteBegin
    \/ WriteRequest
    \/ WriteEnd
    \/ UpdateArtifact
    \/ GetArtifact
    \/ Status

SpecServer == InitServer /\ [][NextServer]_vars

\* The idle state of what was modelled before the reader
CoreIdle ==
    /\ InitIdle
    /\ JobIdle
    /\ QueueIdle
    /\ LoaderIdle
    /\ JunctionIdle
    /\ ServerIdle

\* Calls of ByteStream.Read on objects of any of the sizes
InitRead ==
    /\ CoreIdle
    /\ MoreIdle

NextRead ==
    \/ ReadBegin
    \/ ReadChunk

SpecRead == InitRead /\ [][NextRead]_vars

\* The generator of Read is run until it is exhausted
FairSpecRead == SpecRead /\ WF_vars(ReadChunk)

\* An artifact cache is created with any configured quota on any volume
InitQuota ==
    /\ CoreIdle
    /\ MoreIdle

NextQuota == CalculateCacheQuota

SpecQuota == InitQuota /\ [][NextQuota]_vars

\* The scheduler: build jobs which succeed or fail, and the cleanups started
\* when they are done; other artifacts are committed without being required
NextBuild ==
    \/ Tick
    \/ Commit
    \/ BuildChild
    \/ BuildDone
    \/ CleanStep
    \/ HandleMessage
    \/ ParentComplete

SpecBuild == Init /\ [][NextBuild]_vars

\* What a name of a directory may be in a tree read from the CAS: nothing, a
\* file, a symlink, or a directory with its own entries
LeafEntries(link_targets) ==
    {[kind |-> "absent"], [kind |-> "file"]}
        \cup {[kind |-> "symlink", target |-> t] : t \in link_targets}
InnerTargets == {<<"b">>, <<"..">>, <<"..", "b">>, <<"", "a">>}
InnerEntries ==
    LeafEntries(InnerTargets)
        \cup {[kind |-> "directory", entries |-> [n \in EntryNames |-> [kind |-> "absent"]]]}
RootEntries ==
    LeafEntries(Targets)
        \cup {[kind |-> "directory", entries |-> e] : e \in [EntryNames -> InnerEntries]}

\* The nodes of one kind for the entries of a directory, sorted by name
RECURSIVE SerializeEntries(_)
NodesOfKind(entries, kind, node(_)) ==
    LET names == SelectSeq(DirNames, LAMBDA n : entries[n].kind = kind)
    IN  [i \in DOMAIN names |-> node(names[i])]
SerializeEntries(entries) ==
    [files |-> NodesOfKind(entries, "file",
                           LAMBDA n : [name |-> n, digest |-> DigestOf("x"),
                                       is_executable |-> FALSE]),
     directories |-> NodesOfKind(entries, "directory",
                                 LAMBDA n : [name |-> n,
                                             digest |-> DigestOf(SerializeEntries(
                                                                     entries[n].entries))]),
     symlinks |-> NodesOfKind(entries, "symlink",
                              LAMBDA n : [name |-> n, target |-> entries[n].target])]

\* CasBasedDirectory(context, ref=...): the object of a stored directory
DirectoryOfEntries(entries) ==
    LET buffer == SerializeEntries(entries)
    IN  [exists |-> TRUE, files |-> buffer.files, directories |-> buffer.directories,
         symlinks |-> buffer.symlinks, ref |-> DigestOf(buffer)]

\* The entries of the directory at a path below the root entries, if it is there
RECURSIVE EntriesAt(_, _)
EntriesAt(entries, path) ==
    IF path = <<>> THEN [kind |-> "directory", entries |-> entries]
    ELSE IF entries[Head(path)].kind = "directory"
    THEN EntriesAt(entries[Head(path)].entries, Tail(path))
    ELSE [kind |-> "absent"]

\* The tree read from the CAS for the entries of its root
TreeOfEntries(entries) ==
    [path \in Paths |->
        IF EntriesAt(entries, path).kind = "directory"
        THEN DirectoryOfEntries(EntriesAt(entries, path).entries)
        ELSE NoDir]

\* Any tree is read from the CAS and its symlinks are resolved
InitResolve ==
    /\ CoreIdle
    /\ ReadIdle
    /\ QuotaIdle
    /\ BuildIdle
    /\ RaceIdle
    /\ SetupIdle
    /\ \E entries \in [EntryNames -> RootEntries] :
           /\ tree = TreeOfEntries(entries)
           /\ cas = {SerializeToString(TreeOfEntries(entries)[path]) :
                         path \in {q \in Paths : TreeOfEntries(entries)[q].exists}}
    /\ dir_op = NoDirOp
    /\ dir_calls = 0

\* A session of two projects with any configured remotes, any of which may be
\* out of reach, and an ArtifactCache of either of the two modules
InitSetup ==
    /\ CoreIdle
    /\ ReadIdle
    /\ QuotaIdle
    /\ BuildIdle
    /\ DirIdle
    /\ RaceIdle
    /\ artifact_cache_specs \in [SessionProjects -> SpecLists]
    /\ unreachable \in SUBSET Urls
    /\ aliased \in BOOLEAN
    /\ SetupNew

NextSetup == SetupRemotes

SpecSetup == InitSetup /\ [][NextSetup]_vars

\* A new directory is mutated by imports, descents and deletions
NextDirectory ==
    \/ ImportFiles
    \/ Descend
    \/ DeleteEntry

InitDirectory ==
    /\ CoreIdle
    /\ MoreIdle

SpecDirectory == InitDirectory /\ [][NextDirectory]_vars

NextResolve == Resolve

SpecResolve == InitResolve /\ [][NextResolve]_vars


(***************************************************************************)
(* Properties.                                                             *)
(***************************************************************************)
Range(f) == {f[i] : i \in DOMAIN f}

\* The position of ref r in the list f
Pos(f, r) == CHOOSE i \in DOMAIN f : f[i] = r

RemovedRefs == {removed[i].ref : i \in DOMAIN removed}

Returned == clean_pc \in {"done", "error"}

\* The refs of the strong and weak keys of element e
StrongRef(e) == get_artifact_fullname(e, get_cache_key(e, STRONG))
WeakRef(e) == get_artifact_fullname(e, get_cache_key(e, WEAK))

IsRequiredRef(r) ==
    \E e \in required_elements : \E st \in Strengths : KeyOf(r) = get_cache_key(e, st)

\* C1: during a clean(), no ref whose key is the strong or the weak key of an
\* element that was marked required before the call is removed: none is among
\* the removed refs, and each one listed at the start is still there.
C1_RequiredRefsKept ==
    /\ \A r \in RemovedRefs : ~IsRequiredRef(r)
    /\ clean_pc # "idle" =>
          \A r \in Range(all_artifacts) : IsRequiredRef(r) => r \in PresentRefs

\* A clean() has returned after it skipped a required ref and removed a ref
\* that came later in the list.
C1_Witness ==
    /\ Returned
    /\ \E i, j \in DOMAIN all_artifacts :
          /\ i < j
          /\ IsRequiredRef(all_artifacts[i])
          /\ all_artifacts[j] \in RemovedRefs

\* C2: the cache size estimate of the main process is at least the total size
\* of the stored objects, whatever the interleaving of build jobs and the
\* cleanup job.
C2_EstimateAtLeastTrueSize == cache_size >= calculate_cache_size

\* Elements of which clean() found both the strong and the weak ref
PairListed(e) == {StrongRef(e), WeakRef(e)} \subseteq Range(all_artifacts)

C4_RemovesOnlyAboveThreshold ==
    \A i \in DOMAIN removed : 2 * removed[i].before > cache_quota

\* C4 amended: clean() removes a ref only when the cache size is at least the
\* lower threshold; it never removes one when the size is below the threshold,
\* and it does remove one when the size equals it.
C4_RemovesOnlyAtOrAboveThreshold ==
    \A i \in DOMAIN removed : 2 * removed[i].before >= cache_quota

\* A ref was removed while the cache size was equal to the lower threshold.
C4_Witness ==
    \E i \in DOMAIN removed : 2 * removed[i].before = cache_quota /\ cache_quota > 0

\* C5: clean() terminates; it fails with 'cache too full' only when every ref
\* has been examined and the size exceeds the quota, and it returns normally
\* only with a size within the quota (also when the refs are exhausted).
C5_CleanTerminatesAndFailsIffFull ==
    /\ [](clean_pc = "error" => (artifacts = <<>> /\ child_cache_size > cache_quota))
    /\ [](clean_pc = "done" => child_cache_size <= cache_quota)
    /\ (clean_pc = "run") ~> Returned

\* A clean() has returned normally after it examined every ref, with a size
\* still at or above the lower threshold but within the quota.
C5_Witness ==
    /\ clean_pc = "done"
    /\ all_artifacts # <<>>
    /\ artifacts = <<>>
    /\ 2 * child_cache_size >= cache_quota

\* C6: when clean() removes a ref, every ref before it in the order of
\* list_refs() has been removed earlier or is required.
C6_EvictsInLRUOrder ==
    \A i \in DOMAIN removed :
        \A j \in 1..(Pos(all_artifacts, removed[i].ref) - 1) :
            \/ \E k \in 1..(i - 1) : removed[k].ref = all_artifacts[j]
            \/ IsRequiredRef(all_artifacts[j])

\* A clean() has stopped after it removed the least recently used ref and
\* left a more recently used ref that is not required.
C6_Witness ==
    /\ clean_pc = "done"
    /\ Len(all_artifacts) >= 2
    /\ RemovedRefs # {}
    /\ \E r \in Range(all_artifacts) \ RemovedRefs :
          /\ ~IsRequiredRef(r)
          /\ \A q \in RemovedRefs : Pos(all_artifacts, q) < Pos(all_artifacts, r)
    /\ ref_mtime[all_artifacts[Len(all_artifacts)]] > 0

\* The refs touched by the latest operation, if it was a pull or a
\* mark_required_elements
Touched == IF last_op.op \in {"pull", "mark"} THEN last_op.touched ELSE {}

\* C7 as stated: a ref that was just pulled or touched by
\* mark_required_elements comes after every other ref in list_refs().
C7_UsedRefComesLast ==
    \A r \in Touched : \A q \in PresentRefs \ Touched :
        \A f \in list_refs : Pos(f, q) < Pos(f, r)

\* C7 amended: a ref that was just pulled or touched by mark_required_elements
\* carries the current mtime and comes after every ref whose mtime is older; a
\* ref last used within the same unit of mtime granularity may come after it.
C7_UsedRefComesAfterOlderRefs ==
    \A r \in Touched :
        /\ ref_mtime[r] = now
        /\ \A q \in PresentRefs \ Touched :
              ref_mtime[q] < now => \A f \in list_refs : Pos(f, q) < Pos(f, r)

\* A ref committed before another one was touched later, so that it now comes
\* after the other one in list_refs().
C7_Witness ==
    \E r \in Touched : \E q \in PresentRefs \ Touched :
        /\ ElementOf(q) # ElementOf(r)
        /\ ref_mtime[q] < ref_mtime[r]
        /\ \A f \in list_refs : Pos(f, q) < Pos(f, r)

IsPrefix(p, f) == Len(p) <= Len(f) /\ \A i \in DOMAIN p : p[i] = f[i]

\* C8: pull() contacts the remotes in priority order; it returns True at the
\* first remote that holds the artifact and contacts none after it; it
\* returns False only when it has contacted every remote and none holds it.
C8_PullFirstHitWins ==
    last_op.op = "pull" =>
        /\ IsPrefix(last_op.contacted, remotes)
        /\ last_op.result = "True" =>
              /\ last_op.contacted # <<>>
              /\ \A i \in DOMAIN last_op.contacted :
                    last_op.contacted[i] \in last_op.holders <=> i = Len(last_op.contacted)
              /\ last_op.ref \in PresentRefs
        /\ last_op.result = "False" =>
              /\ last_op.contacted = remotes
              /\ Range(remotes) \cap last_op.holders = {}

\* A pull returned True at the first of two remotes, both of which hold the
\* artifact.
C8_Witness ==
    /\ last_op.op = "pull"
    /\ last_op.result = "True"
    /\ Len(remotes) = 2
    /\ Len(last_op.contacted) = 1
    /\ Range(remotes) \subseteq last_op.holders

\* The first remote in priority order which is unreachable or holds the ref
FirstDecisive(ref_holders, down) ==
    IF \E i \in DOMAIN remotes : remotes[i] \in ref_holders \cup down
    THEN CHOOSE i \in DOMAIN remotes :
            /\ remotes[i] \in ref_holders \cup down
            /\ \A j \in 1..(i - 1) : remotes[j] \notin ref_holders \cup down
    ELSE 0

\* C9 as stated: when a remote is unreachable, pull() goes on with the next
\* remote, and an artifact held by a later reachable remote is pulled.
C9_PullRecoversFromUnreachableRemote ==
    last_op.op = "pull" =>
        ((\E i \in DOMAIN remotes :
              remotes[i] \in last_op.holders /\ remotes[i] \notin last_op.down)
            => last_op.result = "True")

\* C9 amended: when the attempt at a remote raises an error before an earlier
\* remote has provided the artifact, pull() raises ArtifactError at once: no
\* later remote is contacted and the artifact is not pulled from a later
\* remote that holds it.
C9_PullRaisesAtUnreachableRemote ==
    last_op.op = "pull" =>
        LET d == FirstDecisive(last_op.holders, last_op.down)
        IN /\ last_op.result = "ArtifactError" <=> (d # 0 /\ remotes[d] \in last_op.down)
           /\ last_op.result = "ArtifactError" =>
                 /\ last_op.contacted = SubSeq(remotes, 1, d)
                 /\ last_op.touched = {}

\* A pull raised at the first remote while the second remote, which could be
\* reached, holds the artifact.
C9_Witness ==
    /\ last_op.op = "pull"
    /\ last_op.result = "ArtifactError"
    /\ Len(remotes) = 2
    /\ last_op.contacted = <<remotes[1]>>
    /\ remotes[2] \in last_op.holders \ last_op.down

ActionRuns ==
    Cardinality({i \in 1..Len(attempts) : attempts[i].outcome # "not_run"})
    + (IF job_pc = "action" THEN 1 ELSE 0)

\* C11: the action of a job is run at most max_retries + 1 times, every start()
\* after the first follows directly an attempt which returned FAIL, and a job
\* with max_retries = 0 is started once only.
C11_RetriesBounded ==
    /\ ActionRuns <= max_retries + 1
    /\ \A i \in 2..Len(starts) :
          /\ starts[i] = ReturnCode.FAIL
          /\ Len(attempts) >= i - 1
          /\ attempts[i - 1].code = ReturnCode.FAIL
    /\ max_retries = 0 => Len(starts) <= 1

\* A job with retries has used all of them and completed
C11_Witness ==
    /\ job_pc = "complete"
    /\ max_retries > 0
    /\ ActionRuns = max_retries + 1

\* C12: no start() follows an attempt which ended otherwise than with a temporary
\* error; a non-temporary error and an unhandled exception give PERM_FAIL and the
\* status FAIL, a skip gives SKIPPED, and the status is OK exactly after a normal
\* return, the result being what the action returned (None in every other case).
C12_OnlyTemporaryErrorRetried ==
    /\ \A i \in 1..Len(attempts) :
          /\ attempts[i].outcome # "temporary" => Len(starts) <= i
          /\ attempts[i].outcome \in {"permanent", "Exception"}
                => attempts[i].code = ReturnCode.PERM_FAIL
          /\ attempts[i].outcome = "SkipJob" => attempts[i].code = ReturnCode.SKIPPED
    /\ job_pc = "complete" =>
          LET last == attempts[Len(attempts)]
          IN  /\ last.outcome \in {"permanent", "Exception"} => status = JobStatus.FAIL
              /\ last.outcome = "SkipJob" => status = JobStatus.SKIPPED
              /\ (status = JobStatus.OK) <=> (last.outcome = "return")
              /\ result = (IF status = JobStatus.OK THEN last.value ELSE None)

\* A job with retries left completed after an unhandled exception in its second try
C12_Witness ==
    /\ job_pc = "complete"
    /\ Len(attempts) = 2
    /\ attempts[2].outcome = "Exception"
    /\ tries <= max_retries
    /\ status = JobStatus.FAIL

\* C13: a job whose termination was requested while it was running (started and
\* its child not returned yet) completes with the return code TERMINATED and is
\* known to the scheduler as terminated (get_terminated()).
C13_TerminatedJobReportedTerminated ==
    (job_pc = "complete" /\ terminate_at \in {"scheduled", "action"})
        => (returncode = ReturnCode.TERMINATED /\ terminated)

(***************************************************************************)
(* Properties of the build queue.                                          *)
(***************************************************************************)
\* How often x occurs in the sequence seq
Count(seq, x) == Cardinality({i \in 1..Len(seq) : seq[i] = x})

\* C14: of the times enqueue() met an element, the first one at which it had a
\* cached failure put one job which was never started in the done queue, the
\* element once in failed_elements and one failed job to the scheduler; every
\* other time the element was handed to the queue.
C14_CachedFailureBypassesOnce ==
    \A e \in Elements :
        LET bypassed == IF met[e].failure > 0 THEN 1 ELSE 0
        IN  /\ Count(queued, e) = met[e].plain + met[e].failure - bypassed
            /\ Count(failed_elements, e) = bypassed
            /\ Count(done_queue, [element |-> e, started |-> FALSE]) = bypassed
            /\ Count(job_complete_calls, [element |-> e, success |-> FALSE]) = bypassed
            /\ Len(done_queue) = Len(failed_elements)
            /\ Len(job_complete_calls) = Len(failed_elements)

\* An element with a cached failure was met twice, another without one once
C14_Witness ==
    \E e, f \in Elements :
        /\ met[e].failure = 2
        /\ Count(queued, e) = 1
        /\ Count(failed_elements, e) = 1
        /\ f \notin cached_failure
        /\ Count(queued, f) = 1

(***************************************************************************)
(* Properties of the loader.                                               *)
(***************************************************************************)
\* The chain starts and ends with the same element and each element of it
\* declares the next one as a dependency
ChainIsCycle ==
    /\ Len(chain) >= 2
    /\ chain[1] = chain[Len(chain)]
    /\ \A i \in 1..(Len(chain) - 1) : chain[i + 1] \in Names(files[chain[i]])

\* C15: load() comes to an end on every dependency graph; it fails with a
\* circular dependency error exactly when the files declare a cycle among the
\* elements reached from the targets, and the chain it reports is such a cycle.
C15_CircularDependencyDetected ==
    /\ [](ld_pc = "error" => (Circular(files, Range(targets)) /\ ChainIsCycle))
    /\ [](ld_pc \in {"sort", "done"} => ~Circular(files, Range(targets)))
    /\ <>(ld_pc \in {"done", "error"})

\* load() has reported a cycle of three elements, X -> Y -> Z -> X
C15_Witness ==
    /\ ld_pc = "error"
    /\ Len(chain) = 4
    /\ Cardinality(Range(chain)) = 3

\* C16: once the dependencies are sorted, a dependency of an element which
\* depends, directly or indirectly, on another dependency of that element comes
\* after it in the list of the element.
C16_SortIsTopological ==
    ld_pc = "done" =>
        \A e \in loaded : \A i, j \in 1..Len(dependencies[e]) :
            depends(dependencies[e][i].element, dependencies[e][j].element) => j < i

\* Whether the tie-breaks put the dependency a before the dependency b
TieBreakBefore(a, b) ==
    IF a.dep_type # b.dep_type /\ Symbol.RUNTIME \in {a.dep_type, b.dep_type}
    THEN b.dep_type = Symbol.RUNTIME
    ELSE IF element_name[a.element] # element_name[b.element]
    THEN element_name[a.element] < element_name[b.element]
    ELSE IF (element_junction[a.element] = 0) # (element_junction[b.element] = 0)
    THEN element_junction[a.element] = 0
    ELSE element_junction[a.element] < element_junction[b.element]

\* C17: once the dependencies are sorted, two dependencies of an element neither
\* of which depends on the other are in the order of the tie-breaks: runtime-only
\* last, then by element name, then local before junction, then by junction name.
C17_TieBreaksOrderUnrelated ==
    ld_pc = "done" =>
        \A e \in loaded : \A i, j \in 1..Len(dependencies[e]) :
            (/\ i < j
             /\ ~depends(dependencies[e][i].element, dependencies[e][j].element)
             /\ ~depends(dependencies[e][j].element, dependencies[e][i].element))
                => TieBreakBefore(dependencies[e][i], dependencies[e][j])

\* Whether a lookup by project p reaches, through projects which have no entry
\* yet, a project which an earlier lookup from elsewhere has marked
RECURSIVE ReachesMarked(_, _)
ReachesMarked(p, before) ==
    \/ before[p] = NoLoader
    \/ /\ before[p] = Unset
       /\ parent_loader[p] # 0
       /\ ReachesMarked(parent_loader[p], before)

\* C18 as stated: a lookup by a sub-project uses the loader of an ancestor
\* whenever an ancestor defines the junction; the first lookup uses the
\* sub-project's own definition when no ancestor defines it; and a lookup which
\* reaches a project marked by a lookup from elsewhere fails with
\* CONFLICTING_JUNCTION.
C18_AncestorJunctionAlwaysUsed ==
    \A k \in 1..Len(lookups) :
        LET p == lookups[k].project
            r == lookups[k].result
        IN  parent_loader[p] # 0 =>
                /\ (Ancestors(p) \cap defines # {}) =>
                       r.kind = "loader" /\ r.owner \in Ancestors(p) \cap defines
                /\ (Ancestors(p) \cap defines = {} /\ p \in defines /\ k = 1) =>
                       r = LoaderOf(p)
                /\ ReachesMarked(p, lookups[k].before) =>
                       r = LoadError("CONFLICTING_JUNCTION")

\* C18: a lookup by a sub-project which reaches a project marked by a lookup
\* from elsewhere fails with CONFLICTING_JUNCTION, also when an ancestor on the
\* way defines the junction; any other lookup uses the loader of a defining
\* ancestor if there is one and else the sub-project's own definition.
C18_JunctionPrecedenceUnlessMarked ==
    \A k \in 1..Len(lookups) :
        LET p == lookups[k].project
            r == lookups[k].result
            marked == ReachesMarked(p, lookups[k].before)
        IN  parent_loader[p] # 0 =>
                /\ (Ancestors(p) \cap defines # {} /\ ~marked) =>
                       r.kind = "loader" /\ r.owner \in Ancestors(p) \cap defines
                /\ (Ancestors(p) \cap defines = {} /\ p \in defines /\ ~marked) =>
                       r = LoaderOf(p)
                /\ marked => r = LoadError("CONFLICTING_JUNCTION")

\* After a sub-project used its own definition, a lookup by another sub-project
\* fails with CONFLICTING_JUNCTION although an ancestor of it defines the
\* junction
C18_Witness ==
    \E i, k \in 1..Len(lookups) :
        /\ i < k
        /\ parent_loader[lookups[i].project] # 0
        /\ lookups[i].result = LoaderOf(lookups[i].project)
        /\ parent_loader[lookups[k].project] # 0
        /\ Ancestors(lookups[k].project) \cap defines # {}
        /\ lookups[k].result = LoadError("CONFLICTING_JUNCTION")

\* Whether the stream of an answered Write ended with finish_write and its
\* bytes have the size and the hash which its resource name declares
ValidUpload(answer) ==
    /\ answer.last_finish_write
    /\ Len(answer.resource_name) = 2
    /\ digest_from_resource_name(answer.resource_name) =
           Digest(Hash(answer.out), Len(answer.out))

\* C19: a Write whose stream does not end with finish_write, or whose bytes do
\* not match the declared size and hash, leaves the objects of the store as they
\* were and is not answered with success; so a Write adds an object only for a
\* valid stream.
C19_WriteStoresOnlyValidUploads ==
    (last_rpc.rpc = "Write" /\ ~ValidUpload(last_rpc)) =>
        /\ srv_objects = last_rpc.objects_before
        /\ last_rpc.code # "OK"

\* C20: with push disabled every Write and every UpdateArtifact is answered
\* with PERMISSION_DENIED and changes neither the objects nor the refs, and
\* Status tells allow_updates exactly when push is enabled.
C20_PushDisabledDeniesUpdates ==
    [][/\ (~enable_push /\ last_rpc'.rpc \in {"Write", "UpdateArtifact"}) =>
              /\ last_rpc'.code = "PERMISSION_DENIED"
              /\ UNCHANGED <<srv_objects, srv_refs>>
       /\ last_rpc'.rpc = "Status" => last_rpc'.allow_updates = enable_push
       /\ ~enable_push => ~upload'.open]_vars

\* With push disabled an UpdateArtifact naming a key was denied
C20_Witness ==
    /\ ~enable_push
    /\ last_rpc.rpc = "UpdateArtifact"
    /\ last_rpc.keys # {}
    /\ last_rpc.code = "PERMISSION_DENIED"
    /\ srv_refs = [k \in ServerKeys |-> NoDigest]
    /\ srv_objects = {}

C22_GetArtifactReturnsLastUpdate ==
    [][/\ (last_rpc'.rpc = "UpdateArtifact" /\ last_rpc'.code = "OK") =>
              \A k \in ServerKeys :
                  srv_refs'[k] = IF k \in last_rpc'.keys THEN last_rpc'.artifact
                                 ELSE srv_refs[k]
       /\ (last_rpc'.rpc # "UpdateArtifact") => srv_refs' = srv_refs
       /\ (last_rpc'.rpc = "GetArtifact") =>
              IF srv_refs[last_rpc'.key] = NoDigest
              THEN /\ last_rpc'.code = "NOT_FOUND"
                   /\ UNCHANGED <<srv_objects, srv_refs>>
              ELSE /\ last_rpc'.code = "OK"
                   /\ last_rpc'.artifact = srv_refs[last_rpc'.key]]_vars

\* Whether the chunks are pieces of at most a full chunk each which follow one
\* another from the offset on
ChunksFrom(chunks, read_offset) ==
    \A i \in 1..Len(chunks) :
        /\ chunks[i].first = IF i = 1 THEN read_offset ELSE chunks[i - 1].last
        /\ chunks[i].first < chunks[i].last
        /\ chunks[i].last - chunks[i].first <= 64 * 1024

\* C23: a Read of a stored object at an offset within it fails no assertion,
\* yields chunks of at most 64 KiB each which follow one another from the offset,
\* has yielded the bytes up to the end of the object (and no chunk when the
\* offset is the size) once it ends, and it does end.
C23_ReadStreamsObjectFromOffset ==
    /\ [](reader.pc # "idle" /\ reader.st_size = reader.size_bytes
              /\ reader.read_offset <= reader.st_size
          => /\ reader.pc # "assertion"
             /\ ChunksFrom(reader.chunks, reader.read_offset)
             /\ reader.pc = "done" =>
                    IF reader.read_offset = reader.st_size
                    THEN reader.chunks = <<>>
                    ELSE reader.chunks[Len(reader.chunks)].last = reader.st_size)
    /\ (reader.pc = "loop" ~> reader.pc = "done")

\* A Read from inside an object of more than two full chunks has ended after a
\* full chunk and a shorter one
C23_Witness ==
    /\ reader.pc = "done"
    /\ reader.st_size > 2 * max_chunk
    /\ reader.read_offset > 0
    /\ Len(reader.chunks) = 2
    /\ reader.chunks[2].last - reader.chunks[2].first < max_chunk

\* C29: a configured quota below the headroom is rejected, one above the cache
\* size plus the available space is rejected with the reason
\* insufficient-storage-for-quota, and otherwise the quota is the configured one
\* less the headroom and the lower threshold is half of it; an unset quota
\* counts as the cache size plus the available space.
C29_QuotaValidatedAndSet ==
    quota_calc.pc = "done" =>
        LET space == quota_calc.cache_size + quota_calc.available_space
            configured == IF quota_calc.config_cache_quota = QuotaNone THEN space
                          ELSE quota_calc.config_cache_quota
            outcome == quota_calc.result
        IN  IF configured < quota_calc.headroom
            THEN outcome.raised # "none"
            ELSE IF configured > space
            THEN /\ outcome.raised # "none"
                 /\ outcome.reason = "insufficient-storage-for-quota"
            ELSE /\ outcome.raised = "none"
                 /\ outcome._cache_quota = configured - quota_calc.headroom
                 /\ outcome._cache_lower_threshold[1] = outcome._cache_quota
                 /\ outcome._cache_lower_threshold[2] = 2

\* C30: the cleanup which the done() of a build starts removes no ref of the
\* element that was built, and the done() of a failed build changes neither the
\* cache size estimate nor starts a cleanup.
C30_BuiltArtifactSurvivesItsCleanup ==
    /\ [](\A i \in 1..Len(removed) : ElementOf(removed[i].ref) # cleanup_cause)
    /\ [][(build_result # NoJob /\ build_result' = NoJob /\ ~build_success) =>
              UNCHANGED <<cache_size, clean_pc, required_elements>>]_vars

\* The cleanup started by the done() of a build has removed a ref of another
\* element while both refs of the element built are there
C30_Witness ==
    /\ cleanup_cause # NoJob
    /\ removed # <<>>
    /\ \A r \in RefsOfElement(cleanup_cause) : r \in PresentRefs
    /\ \A r \in RefsOfElement(cleanup_cause) : \E i \in 1..Len(all_artifacts) : all_artifacts[i] = r

\* What a name which is no symlink of the directory at a path stands for
EntryOf(t, path, name) ==
    IF name \in NodeNames(t[path].directories) THEN ResolvedDirectory(Append(path, name))
    ELSE IF name \in NodeNames(t[path].files)
    THEN ResolvedFile(FindNode(t[path].files, name))
    ELSE ResolvedNone

\* What the resolution of a symlink of one or two components has to give
ResolvesAsPosix(op) ==
    LET t == op.tree_before
        target == FindNode(t[op.path].symlinks, op.name).target
        above == IF op.path = <<>> THEN <<>> ELSE ParentPath(op.path)
    IN  op.name \in NodeNames(t[op.path].symlinks) =>
            /\ (target[1] = "" /\ ~op.absolute_symlinks_resolve) =>
                   op.result = ResolvedNone
            /\ (target[1] = "" /\ op.absolute_symlinks_resolve /\ Len(target) = 2
                    /\ target[2] \in EntryNames
                    /\ target[2] \notin NodeNames(t[<<>>].symlinks)) =>
                   op.result = EntryOf(t, <<>>, target[2])
            /\ (target = <<"", "..">> /\ op.absolute_symlinks_resolve) =>
                   op.result = ResolvedDirectory(<<>>)
            /\ target = <<"..">> => op.result = ResolvedDirectory(above)
            /\ (Len(target) = 2 /\ target[1] = ".." /\ target[2] \in EntryNames
                    /\ target[2] \notin NodeNames(t[above].symlinks)) =>
                   op.result = EntryOf(t, above, target[2])
            /\ (Len(target) = 1 /\ target[1] \in EntryNames
                    /\ target[1] \notin NodeNames(t[op.path].symlinks)) =>
                   op.result = EntryOf(t, op.path, target[1])

\* C28: _resolve never alters the tree; an absolute target is resolved from
\* the root of the tree when absolute resolution is on and gives None when it
\* is off, '..' at the root stays at the root, and a component which is not
\* there gives None.
C28_ResolveWalksWithoutAltering ==
    [][(dir_op' # dir_op /\ dir_op'.op = "_resolve") =>
           /\ tree' = tree
           /\ cas' = cas
           /\ dir_op'.tree_before = tree
           /\ ResolvesAsPosix(dir_op')]_vars

\* A symlink of a subdirectory with the absolute target /a has been resolved
\* from the root to the directory a
C28_Witness ==
    /\ dir_op.op = "_resolve"
    /\ dir_op.path # <<>>
    /\ dir_op.name \in NodeNames(tree[dir_op.path].symlinks)
    /\ FindNode(tree[dir_op.path].symlinks, dir_op.name).target = <<"", "a">>
    /\ dir_op.absolute_symlinks_resolve
    /\ dir_op.result = ResolvedDirectory(<<"a">>)

\* The directory at a path and the directories above it, up to the root
Ancestry(path) == {SubSeq(path, 1, n) : n \in 0..Len(path)}

\* A call has mutated the tree and returned
Mutated == dir_op.op \in {"import_files", "descend", "delete_entry"} /\ dir_op.raised = "none"

\* C24: after a call which mutates a directory returns, the DirectoryNode of
\* every directory above it holds the digest of the current serialization of
\* the directory below, the ref of the root is the digest of the current
\* serialization of the root, and these serializations are stored in the CAS.
C24_AncestorsCurrentAndStored ==
    Mutated =>
        /\ \A q \in Ancestry(dir_op.path) \ {<<>>} :
               FindNode(tree[ParentPath(q)].directories, q[Len(q)]).digest
                   = DigestOf(SerializeToString(tree[q]))
        /\ tree[<<>>].ref = DigestOf(SerializeToString(tree[<<>>]))
        /\ \A q \in Ancestry(dir_op.path) : SerializeToString(tree[q]) \in cas

\* A list of nodes is sorted by name
SortedByName(nodes) ==
    \A i \in DOMAIN nodes, j \in DOMAIN nodes :
        i < j => NameOrder(nodes[i].name) < NameOrder(nodes[j].name)

\* C25: in every directory of the tree the files, the directories and the
\* symlinks are each sorted by name, and no name is in two of the lists.
C25_ListsSortedAndDisjoint ==
    \A path \in Directories :
        /\ SortedByName(tree[path].files)
        /\ SortedByName(tree[path].directories)
        /\ SortedByName(tree[path].symlinks)
        /\ NodeNames(tree[path].files) \cap NodeNames(tree[path].directories) = {}
        /\ NodeNames(tree[path].files) \cap NodeNames(tree[path].symlinks) = {}
        /\ NodeNames(tree[path].directories) \cap NodeNames(tree[path].symlinks) = {}

\* C26: an import from a CasBasedDirectory gives the digest which the import
\* of the same content from the host gives: import_files never raises the
\* mismatch of the two results.
C26_CasImportEqualsHostImport ==
    (dir_op.op = "import_files" /\ dir_op.from_cas) => dir_op.raised # "Mismatch"

\* The names of a list of reported paths
Reported(paths) == {paths[i] : i \in DOMAIN paths}

\* The entry of the source is in the directory under its name
Brought(d, name, entry) ==
    IF entry.kind = "file"
    THEN /\ name \in NodeNames(d.files)
         /\ FindNode(d.files, name).digest = DigestOf(entry.content)
         /\ name \notin NodeNames(d.symlinks) \cup NodeNames(d.directories)
    ELSE /\ name \in NodeNames(d.symlinks)
         /\ FindNode(d.symlinks, name).target = entry.target
         /\ name \notin NodeNames(d.files) \cup NodeNames(d.directories)

\* C27: a name which import_files brings into a directory is added and
\* reported as written when it was not there; replaced and reported as
\* overwritten and written when it was a file, a symlink or an empty
\* directory; left alone and reported only as ignored when it was a directory
\* which is not empty.
C27_ImportOverwriteSemantics ==
    dir_op.op = "import_files" =>
        \A i \in DOMAIN dir_op.files :
            LET n == dir_op.files[i]
                before == dir_op.tree_before[dir_op.path]
                here == tree[dir_op.path]
                reports == dir_op.result
            IN  IF ~InIndex(before, n)
                THEN /\ Brought(here, n, dir_op.source[n])
                     /\ n \in Reported(reports.files_written)
                     /\ n \notin Reported(reports.overwritten) \cup Reported(reports.ignored)
                ELSE IF n \in NodeNames(before.directories)
                        /\ ~is_empty(dir_op.tree_before[Append(dir_op.path, n)])
                THEN /\ n \in NodeNames(here.directories)
                     /\ tree[Append(dir_op.path, n)].files
                            = dir_op.tree_before[Append(dir_op.path, n)].files
                     /\ tree[Append(dir_op.path, n)].symlinks
                            = dir_op.tree_before[Append(dir_op.path, n)].symlinks
                     /\ n \in Reported(reports.ignored)
                     /\ n \notin Reported(reports.files_written)
                                     \cup Reported(reports.overwritten)
                ELSE /\ Brought(here, n, dir_op.source[n])
                     /\ n \in Reported(reports.overwritten)
                     /\ n \in Reported(reports.files_written)
                     /\ n \notin Reported(reports.ignored)

\* C31: while a cleanup job runs, the cache size of the main process changes
\* only when a message of the child is handled or the job completes; a job
\* which completes OK leaves the size the child's clean() returned, and a
\* job which fails leaves the size as it was.
C31_ChildWritesThroughMessages ==
    [][/\ (clean_pc # "idle" /\ cache_size' # cache_size) =>
              \/ msgs # <<>> /\ msgs' = Tail(msgs) /\ cache_size' = Head(msgs)
              \/ clean_pc \in {"done", "error"} /\ clean_pc' = "idle"
       /\ (clean_pc = "done" /\ clean_pc' = "idle") => cache_size' = child_cache_size
       /\ (clean_pc = "error" /\ clean_pc' = "idle") => cache_size' = cache_size]_vars

\* C31 (amended): while a cleanup job runs, the cache size of the main process
\* changes only when a message of the child is handled, when the job
\* completes, or when the done() of a build job adds the size of its artifact;
\* a job which completes OK leaves the size the child's clean() returned,
\* and a job which fails leaves the size as it was.
C31_ChildWritesThroughMainThread ==
    [][/\ (clean_pc # "idle" /\ cache_size' # cache_size) =>
              \/ msgs # <<>> /\ msgs' = Tail(msgs) /\ cache_size' = Head(msgs)
              \/ clean_pc \in {"done", "error"} /\ clean_pc' = "idle"
              \/ /\ build_result # NoJob
                 /\ build_result' = NoJob
                 /\ cache_size' = add_artifact_size(ArtifactSize(build_result))
       /\ (clean_pc = "done" /\ clean_pc' = "idle") => cache_size' = child_cache_size
       /\ (clean_pc = "error" /\ clean_pc' = "idle") => cache_size' = cache_size]_vars

\* The clean() of a child has raised after it removed refs, while the main
\* process has not handled all of its messages
C31_Witness ==
    /\ clean_pc = "error"
    /\ removed # <<>>
    /\ Len(msgs) = 1
    /\ cache_size # child_cache_size

\* C32: once terminate() has been called on a job which was started,
\* get_terminated() returns True, wherever the job was at the call.
C32_TerminateAlwaysRecorded ==
    terminate_at \in {"scheduled", "action", "returned", "complete"} => terminated

\* C35: terminate_thread is called only with the id of a thread which is
\* still running the action of the job, never with a cleared thread id or
\* after the worker has finished; and a worker which finds the request when
\* it registers itself returns TERMINATED without running the action.
C35_TerminateThreadHitsRunningAction ==
    /\ \A i \in 1..Len(kills) : kills[i].thread_id /\ kills[i].job_pc = "action"
    /\ \A i \in 1..Len(attempts) :
           attempts[i].outcome = "not_run" => attempts[i].code = ReturnCode.TERMINATED

\* C36: start() is never called on a job whose termination was recorded after
\* it was started; an attempt which was running when terminate() was called
\* is not followed by another start(), and no start() follows once the
\* scheduler is terminated.
C36_NoStartAfterTermination ==
    /\ [](terminate_at # "new" => job_pc # "assertion")
    /\ [][(starts # <<>> /\ (terminate_at = "action" \/ scheduler_terminated)) =>
              (starts' = starts /\ job_pc' # "assertion")]_vars

RECURSIVE BytesReceived(_, _)
BytesReceived(stream, n) ==
    IF n = 0 THEN 0 ELSE BytesReceived(stream, n - 1) + Len(stream[n].data)

\* C33: in every Write stream which the server answers with success each
\* request's write_offset is the number of bytes received before it, a
\* resource_name sent after the first request is that of the first request, the
\* request with finish_write is the last one, and committed_size is the number
\* of all bytes received.
C33_AcceptedStreamIsContiguous ==
    (last_rpc.rpc = "Write" /\ last_rpc.code = "OK") =>
        LET stream == last_rpc.stream
        IN  /\ stream # <<>>
            /\ \A i \in 1..Len(stream) :
                   /\ stream[i].write_offset = BytesReceived(stream, i - 1)
                   /\ (i > 1 /\ stream[i].resource_name # <<>>) =>
                          stream[i].resource_name = stream[1].resource_name
                   /\ stream[i].finish_write <=> i = Len(stream)
            /\ last_rpc.committed_size = BytesReceived(stream, Len(stream))

\* A stream of two requests was accepted: the second one came after a byte,
\* named the resource again and finished the write
C33_Witness ==
    /\ last_rpc.rpc = "Write"
    /\ last_rpc.code = "OK"
    /\ Len(last_rpc.stream) = 2
    /\ last_rpc.stream[1].data # <<>>
    /\ last_rpc.stream[2].resource_name # <<>>
    /\ last_rpc.stream[2].write_offset = 1
    /\ last_rpc.committed_size = 1

\* C34: within one load each file is loaded at most once: a LoadElement is
\* made only for a file which has none yet and stays registered, each declared
\* dependency is resolved to the one LoadElement of its file, also along the two
\* paths of a diamond and along the back-edge of a cycle, and the first pass of
\* load() comes to an end on every graph.
C34_EachFileLoadedOnce ==
    /\ [][/\ (ld_pc = "load" /\ ld_pc' = "load" /\ Len(ld_stack') > Len(ld_stack)) =>
                 /\ Top(ld_stack').element \notin loaded
                 /\ loaded' = loaded \cup {Top(ld_stack').element}
          /\ loaded \subseteq loaded']_vars
    /\ [](ld_pc \in {"load", "check"} =>
             \A e \in loaded : \A i \in 1..Len(dependencies[e]) :
                 /\ dependencies[e][i].element = files[e][i].name
                 /\ dependencies[e][i].element \in loaded)
    /\ (ld_pc = "load") ~> (ld_pc # "load")

\* The diamond whose bottom depends on its top was loaded: both paths and the
\* back-edge were resolved to the elements registered before
C34_Witness ==
    /\ ld_pc = "check"
    /\ loaded = {1, 2, 3, 4}
    /\ dependencies[2] = <<Dependency(4, Symbol.ALL)>>
    /\ dependencies[3] = <<Dependency(4, Symbol.ALL)>>
    /\ dependencies[4] = <<Dependency(1, Symbol.ALL)>>
    /\ Len(dependencies[1]) = 2

\* C38: the resolution of a symlink comes to an end on every tree, also when
\* symlinks point to each other in a cycle or to themselves: no call of _resolve
\* recurses without end.
C38_ResolutionTerminates ==
    dir_op.op = "_resolve" => dir_op.result # ResolveRaised("RecursionError")

\* The lists which hold the dependencies of a list in any order
Reorderings(list) ==
    {p \in [1..Len(list) -> Range(list)] : \A i, j \in 1..Len(list) : i # j => p[i] # p[j]}

\* C39: the comparison used to sort the dependencies is antisymmetric and
\* transitive on the direct dependencies of every element, and the sorted list
\* of an element is the same in whatever order its dependencies are listed.
C39_ComparisonIsTotalOrder ==
    ld_pc = "done" =>
        \A e \in loaded :
            LET deps == Range(dependencies[e])
            IN  /\ \A a, b \in deps :
                       a # b => /\ dependency_cmp(a, b) # 0
                                /\ dependency_cmp(a, b) = 0 - dependency_cmp(b, a)
                /\ \A a, b, c \in deps : (ISLT(a, b) /\ ISLT(b, c)) => ISLT(a, c)
                /\ \A p \in Reorderings(dependencies[e]) : list_sort(p) = dependencies[e]

\* What the remote list of a project is to be: the reachable ones of the
\* global specs and of the specs of the project, each once, in priority order
ReachableRemotes(global_specs, own_specs) ==
    SelectSeq(deduplicate(global_specs \o own_specs),
              LAMBDA spec : spec.url \notin unreachable)

\* C40: after initialize_remotes the remote list of each project holds exactly
\* the reachable remotes of the global specs and of the specs of that project,
\* each once and in priority order, so never a remote which only another
\* project has configured, and the list of the global specs is as it was set.
C40_ProjectRemotesAreItsOwn ==
    (remotes_setup /\ (\/ set_remotes # <<>>
                       \/ \E p \in SessionProjects : project_remote_specs[p] # <<>>)) =>
        /\ \A p \in SessionProjects :
               project_remotes[p] = ReachableRemotes(set_remotes, project_remote_specs[p])
        /\ global_remote_specs = set_remotes

====
